---- MODULE Spec2Model ----
(***************************************************************************)
(* A model of PaxD Improved (paxd_improved.py): checksum verification with *)
(* retry, the staged file transfer, the commented-JSON parser, manifest    *)
(* resolution, and the install, update and uninstall operations over the   *)
(* local package store and the launcher directory.                         *)
(*                                                                         *)
(* Strings the code takes apart (checksum values, relative paths, lines of *)
(* commented JSON) are sequences of tokens, so that split(':'), dirname,   *)
(* the comment scan and the like are computed the way the code computes    *)
(* them.  Every system call that can raise (network, disk) may raise       *)
(* nondeterministically, at most MaxFaults times in a behaviour.  An       *)
(* interrupt (KeyboardInterrupt is not an Exception, so no handler of the  *)
(* program catches it) may stop the process between any two steps.         *)
(***************************************************************************)
EXTENDS Integers, Sequences, FiniteSets, TLC

\* ------------------------------------------------------------------ bounds
MaxVersion == 2
MaxFaults == 1
MaxTextLen == 6
MaxDepth == 3

\* ------------------------------------------------------- program constants
MaxRetries == 4
BackoffBaseMs == 500

\* ------------------------------------------------------------- file system
Absent == 0
Truncated == -1

Contents == 1..MaxVersion

XTxt == <<"x", ".", "txt">>
SrcM == <<"src", "/", "m", ".", "py">>
Paths == {XTxt, SrcM}

Protected == "com.mralfiem591.paxd"
SelfId == "com.mralfiem591.paxd-imp"
PkgA == "a.b"
PkgD == "c.d"
Pkgs == {PkgA, PkgD, SelfId, Protected}

\* os.path.dirname: everything before the last separator
LastSlash(p) ==
    IF \E i \in 1..Len(p) : p[i] = "/"
    THEN CHOOSE i \in 1..Len(p) : p[i] = "/" /\ \A j \in (i+1)..Len(p) : p[j] # "/"
    ELSE 0

Dirname(p) == IF LastSlash(p) = 0 THEN <<>> ELSE SubSeq(p, 1, LastSlash(p) - 1)

\* os.makedirs(d, exist_ok=True): d and every ancestor of d
RECURSIVE DirChain(_)
DirChain(d) == IF d = <<>> THEN {} ELSE {d} \cup DirChain(Dirname(d))

SubDirs == UNION {DirChain(Dirname(p)) : p \in Paths}

\* the launcher directory, inside the directory of the original client
BinDir == <<"bin">>

NoFiles == [p \in Paths |-> Absent]

NoDir == [exists |-> FALSE, files |-> NoFiles, tmp |-> NoFiles, subdirs |-> {},
          version |-> Absent, user |-> FALSE]

EmptyDir == [NoDir EXCEPT !.exists = TRUE]

\* os.listdir(d) = [] : nothing at all under the directory
IsEmptyDir(d) ==
    /\ d.exists
    /\ \A p \in Paths : d.files[p] = Absent /\ d.tmp[p] = Absent
    /\ d.subdirs = {}
    /\ d.version = Absent
    /\ ~d.user

\* ---------------------------------------------------------------- checksum
NoChecksum == <<>>

Digit(c) ==
    CASE c = 1 -> "1" [] c = 2 -> "2" [] c = 3 -> "3" [] c = 4 -> "4" [] OTHER -> "0"

\* hashlib.new(algorithm) ... hexdigest(): two digits, the first per algorithm
KnownAlgorithms == {<<"sha256">>, <<"md5">>}

HexDigest(alg, c) == IF alg = <<"sha256">> THEN <<"5", Digit(c)>> ELSE <<"d", Digit(c)>>

\* expected_checksum.split(':', 1): the first colon, 0 when there is none
ColonPos(s) ==
    IF \E i \in 1..Len(s) : s[i] = ":"
    THEN CHOOSE i \in 1..Len(s) : s[i] = ":" /\ \A j \in 1..(i-1) : s[j] # ":"
    ELSE 0

SplitAlgorithm(s) == SubSeq(s, 1, ColonPos(s) - 1)

SplitHash(s) == SubSeq(s, ColonPos(s) + 1, Len(s))

Sha(c) == <<"sha256", ":">> \o HexDigest(<<"sha256">>, c)
Md5(c) == <<"md5", ":">> \o HexDigest(<<"md5">>, c)

ExpectedSet ==
    {NoChecksum}
    \cup {Sha(c) : c \in Contents}
    \cup {Md5(c) : c \in Contents}
    \cup {<<"bogus", ":", "5", "1">>}          \* unknown algorithm
    \cup {<<"5", "1">>}                        \* no colon
    \cup {Sha(1) \o <<":", "1">>}              \* a second colon

\* 0.5 s, 1 s, 2 s, ... in milliseconds
RetryWaitBug(attempt) == BackoffBaseMs * (2 ^ (attempt + 1))

RetryWait(attempt) == BackoffBaseMs * (2 ^ attempt)

\* ---------------------------------------------------------------- manifest
SourceOrderBug == <<"paxd.yaml", "package.yaml", "paxd">>

\* the sources of _fetch_package_metadata, in the order it tries them
SourceOrder == <<"package.yaml", "paxd.yaml", "paxd">>

SourceNames == {"package.yaml", "paxd.yaml", "paxd"}

YamlSources == {"package.yaml", "paxd.yaml"}

RequiredFields == {"name", "author", "version", "description", "license"}

NoPath == <<>>
NoAlias == <<>>
NoChecksums == [p \in Paths |-> NoChecksum]

\* a YAML package document: top-level keys, and the keys of its "install" map
YamlData(name, ver, files, pip, paxd, main, alias, cks, missing) ==
    [missing |-> missing, name |-> name, version |-> ver, files |-> files,
     pip |-> pip, paxd |-> paxd, main_executable |-> main, command_alias |-> alias,
     checksum |-> cks]

\* the canonical manifest (the legacy "paxd" document is written in this form)
Manifest(name, ver, include, depend, main, alias, cks, missing) ==
    [missing |-> missing, pkg_name |-> name, pkg_version |-> ver, include |-> include,
     depend |-> depend, mainfile |-> main, alias |-> alias, checksum |-> cks]

NoManifest == Manifest("", Absent, <<>>, <<>>, NoPath, NoAlias, NoChecksums, {})

DepRefs(kind, ids) == [i \in 1..Len(ids) |-> [kind |-> kind, id |-> ids[i]]]

\* _compile_paxd_manifest raises ValueError when a required field is absent
CompileRaises(y) == y.missing # {}

\* _compile_paxd_manifest: files -> include, dependencies.pip then
\* dependencies.paxd -> depend, main_executable -> mainfile, command_alias -> alias
CompileManifest(y) ==
    Manifest(y.name, y.version, y.files,
             DepRefs("pip", y.pip) \o DepRefs("paxd", y.paxd),
             y.main_executable, y.command_alias, y.checksum, {})

Unreachable == [state |-> "unreachable", data |-> NoManifest]
Malformed == [state |-> "malformed", data |-> NoManifest]
Document(d) == [state |-> "ok", data |-> d]

NoDocs == [n \in SourceNames |-> Unreachable]

EmptyRepo == [docs |-> [p \in Pkgs |-> NoDocs], version |-> 1]

\* one source: fetch, parse, and for YAML compile; does it raise?
SourceFails(name, doc, f) ==
    \/ f
    \/ doc.state # "ok"
    \/ name \in YamlSources /\ CompileRaises(doc.data)

SourceManifest(name, doc) ==
    IF name \in YamlSources THEN CompileManifest(doc.data) ELSE doc.data

\* ------------------------------------------------------------ _parse_jsonc
\* the characters of a commented-JSON text that the scan tells apart
Slash == "/"
Quote == "\""
Backslash == "\\"
Newline == "\n"

Alphabet == {Slash, Quote, Backslash, Newline, " "}

\* what str.rstrip() removes
Whitespace == {" ", "\t", "\r", "\n"}

JsoncTexts == UNION {[1..n -> Alphabet] : n \in 0..MaxTextLen}

FirstNewline(s) ==
    IF \E i \in 1..Len(s) : s[i] = Newline
    THEN CHOOSE i \in 1..Len(s) : s[i] = Newline /\ \A j \in 1..(i-1) : s[j] # Newline
    ELSE 0

\* jsonc_text.split('\n')
RECURSIVE SplitLines(_)
SplitLines(s) ==
    IF FirstNewline(s) = 0 THEN <<s>>
    ELSE <<SubSeq(s, 1, FirstNewline(s) - 1)>>
         \o SplitLines(SubSeq(s, FirstNewline(s) + 1, Len(s)))

\* "for i, char in enumerate(line)" from position i on: the position of the
\* comment (comment_pos, counted from 1), 0 when the loop ends without one
RECURSIVE ScanLine(_, _, _, _)
ScanLine(line, i, in_string, escaped) ==
    IF i > Len(line) THEN 0
    ELSE IF escaped THEN ScanLine(line, i + 1, in_string, FALSE)
    ELSE IF line[i] = Backslash THEN ScanLine(line, i + 1, in_string, TRUE)
    ELSE IF line[i] = Quote THEN ScanLine(line, i + 1, ~in_string, FALSE)
    ELSE IF ~in_string /\ line[i] = Slash /\ i + 1 <= Len(line) /\ line[i + 1] = Slash
    THEN i
    ELSE ScanLine(line, i + 1, in_string, FALSE)

CommentPos(line) == ScanLine(line, 1, FALSE, FALSE)

RECURSIVE RStrip(_)
RStrip(s) ==
    IF s # <<>> /\ s[Len(s)] \in Whitespace THEN RStrip(SubSeq(s, 1, Len(s) - 1)) ELSE s

\* line[:comment_pos].rstrip() when a comment was found, else the line itself
CleanLineBug(line) ==
    IF CommentPos(line) # 0 THEN SubSeq(line, 1, CommentPos(line) - 1) ELSE line

CleanLine(line) ==
    IF CommentPos(line) # 0 THEN RStrip(SubSeq(line, 1, CommentPos(line) - 1)) ELSE line

\* '\n'.join(cleaned_lines)
RECURSIVE JoinLines(_)
JoinLines(ls) ==
    IF ls = <<>> THEN <<>>
    ELSE IF Len(ls) = 1 THEN ls[1]
    ELSE ls[1] \o <<Newline>> \o JoinLines(Tail(ls))

\* ---------------------------------------------------------------- launcher
\* mainfile.split(".")[0]: everything before the first dot
FirstDot(p) ==
    IF \E i \in 1..Len(p) : p[i] = "."
    THEN CHOOSE i \in 1..Len(p) : p[i] = "." /\ \A j \in 1..(i-1) : p[j] # "."
    ELSE Len(p) + 1

BeforeDot(p) == SubSeq(p, 1, FirstDot(p) - 1)

\* install.get("alias", mainfile.split(".")[0])
AliasOf(man) == IF man.alias # NoAlias THEN man.alias ELSE BeforeDot(man.mainfile)

Tool == <<"tool">>

MyToolPy == <<"my", ".", "tool", ".", "py">>

\* the main files a manifest may declare
MainFiles == Paths \cup {MyToolPy}

Aliases == {BeforeDot(p) : p \in MainFiles} \cup {Tool}

NoTarget == [pkg |-> "none", main |-> NoPath]

NoLaunchers == [a \in Aliases |-> NoTarget]

\* open(bin/<alias>.bat, 'w') raises when <alias> names a directory that is not there
LauncherPathMissing(alias) == \E i \in 1..Len(alias) : alias[i] = "/"

\* the version written when the manifest has none: pkg_info.get('pkg_version', 'Unknown')
Unknown == -2

\* a version string that ends in white space ("2 ") is the plain one plus Blank
Blank == 100

Padded(ver) == ver + Blank

\* f.read().strip() of the content of .VERSION
Strip(s) == IF s > Blank THEN s - Blank ELSE s

\* current_version: "Unknown" when .VERSION is absent, else its content stripped
ReadVersion(d) == IF d.version = Absent THEN Unknown ELSE Strip(d.version)

VersionOfBug(man) == Unknown

VersionOf(man) == IF "version" \in man.missing THEN Unknown ELSE man.pkg_version


\* ------------------------------------------------------------------- state
VARIABLES
    store,      \* package store root: one directory per package identifier
    backup,     \* the sibling "<package dir>.backup" directories
    launchers,  \* the launcher directory: alias -> shim target
    repo,       \* the remote repository
    v,          \* _verify_checksum_with_retry in progress
    t,          \* _download_and_verify_file in progress
    r,          \* _fetch_package_metadata in progress
    stack,      \* install / update calls in progress
    ret,        \* the install / update call that returned last
    faults,     \* exceptions raised by the environment so far
    halted,     \* the process was interrupted
    jsonc       \* _parse_jsonc in progress

vars == <<store, backup, launchers, repo, v, t, r, stack, ret, faults, halted, jsonc>>

txnVars == <<backup, launchers, repo, r, stack, ret, jsonc>>

FaultChoice == IF faults < MaxFaults THEN BOOLEAN ELSE {FALSE}

Raise(f) == faults' = faults + (IF f THEN 1 ELSE 0)

\* -------------------------------------------- _verify_checksum_with_retry
VIdle == [pc |-> "idle", caller |-> "none", pkg |-> PkgA, path |-> XTxt,
          expected |-> NoChecksum, alg |-> <<>>, hex |-> <<>>, attempt |-> 0,
          waits |-> <<>>, tries |-> 0, matched |-> <<>>, result |-> "none"]

VerifyStart(caller, pkg, path, expected) ==
    [VIdle EXCEPT !.pc = "split", !.caller = caller, !.pkg = pkg, !.path = path,
                  !.expected = expected]

\* algorithm, expected_hash = expected_checksum.split(':', 1), outside the try
V_Split ==
    /\ ~halted
    /\ v.pc = "split"
    /\ v' = IF ColonPos(v.expected) = 0
            THEN [v EXCEPT !.pc = "done", !.result = "raise"]
            ELSE [v EXCEPT !.pc = "attempt", !.alg = SplitAlgorithm(v.expected),
                           !.hex = SplitHash(v.expected)]
    /\ UNCHANGED <<store, t, faults, halted, txnVars>>

\* _calculate_file_checksum raises: unknown algorithm, missing or unreadable file
HashRaises(alg, c, f) == alg \notin KnownAlgorithms \/ c = Absent \/ f

AttemptMatches(alg, hex, c, f) == ~HashRaises(alg, c, f) /\ HexDigest(alg, c) = hex

\* a retry that fetched the file again and hashed what the repository serves
HashedBug(vv) ==
    IF vv.attempt = 0 THEN store[vv.pkg].tmp[vv.path] ELSE repo.version

\* what an attempt hashes: the staged file at file_path, read again each time
Hashed(vv) == store[vv.pkg].tmp[vv.path]

\* one iteration of "for attempt in range(max_retries)", its sleep included
V_Attempt ==
    /\ ~halted
    /\ v.pc = "attempt"
    /\ v.attempt < MaxRetries
    /\ \E f \in FaultChoice :
         LET c  == Hashed(v)
             ok == AttemptMatches(v.alg, v.hex, c, f)
             w  == [v EXCEPT !.tries = @ + 1, !.matched = Append(@, ok)]
         IN /\ Raise(f)
            /\ v' = IF ok
                    THEN [w EXCEPT !.pc = "done", !.result = "true"]
                    ELSE IF v.attempt < MaxRetries - 1
                         THEN [w EXCEPT !.waits = Append(@, RetryWait(v.attempt)),
                                        !.attempt = @ + 1]
                         ELSE [w EXCEPT !.pc = "done", !.result = "false"]
    /\ UNCHANGED <<store, t, halted, txnVars>>

\* -------------------------------------------------- _fetch_package_metadata
RIdle == [pc |-> "idle", caller |-> "none", pkg |-> PkgA, i |-> 1, fetched |-> <<>>,
          neterr |-> {}, result |-> "none", man |-> NoManifest, source |-> "none"]

ResolveStart(caller, pkg) == [RIdle EXCEPT !.pc = "try", !.caller = caller, !.pkg = pkg]

\* one "try: fetch, parse, return / except Exception: pass" block; after the
\* third, raise Exception("Package ... not found")
R_Try ==
    /\ ~halted
    /\ r.pc = "try"
    /\ \E f \in FaultChoice :
         LET name == SourceOrder[r.i]
             doc  == repo.docs[r.pkg][name]
             w    == [r EXCEPT !.fetched = Append(@, name),
                               !.neterr = IF f THEN @ \cup {name} ELSE @]
         IN /\ Raise(f)
            /\ r' = IF ~SourceFails(name, doc, f)
                    THEN [w EXCEPT !.pc = "done", !.result = "ok",
                                   !.man = SourceManifest(name, doc), !.source = name]
                    ELSE IF r.i < Len(SourceOrder)
                         THEN [w EXCEPT !.i = @ + 1]
                         ELSE [w EXCEPT !.pc = "done", !.result = "raise"]
    /\ UNCHANGED <<store, backup, launchers, repo, v, t, stack, ret, halted, jsonc>>

\* -------------------------------------------------------------- _parse_jsonc
JIdle == [pc |-> "idle", text |-> <<>>, lines |-> <<>>, cleaned |-> <<>>, out |-> <<>>]

ParseStart(text) == [JIdle EXCEPT !.pc = "split", !.text = text]

\* lines = jsonc_text.split('\n')
J_Split ==
    /\ jsonc.pc = "split"
    /\ jsonc' = [jsonc EXCEPT !.pc = "line", !.lines = SplitLines(jsonc.text)]
    /\ UNCHANGED <<store, backup, launchers, repo, v, t, r, stack, ret, faults, halted>>

\* one iteration of "for line in lines": scan the line, append what is kept
J_Line ==
    /\ jsonc.pc = "line"
    /\ Len(jsonc.cleaned) < Len(jsonc.lines)
    /\ jsonc' = [jsonc EXCEPT !.cleaned =
                    Append(@, CleanLine(jsonc.lines[Len(jsonc.cleaned) + 1]))]
    /\ UNCHANGED <<store, backup, launchers, repo, v, t, r, stack, ret, faults, halted>>

\* cleaned_json = '\n'.join(cleaned_lines)
J_Join ==
    /\ jsonc.pc = "line"
    /\ Len(jsonc.cleaned) = Len(jsonc.lines)
    /\ jsonc' = [jsonc EXCEPT !.pc = "done", !.out = JoinLines(jsonc.cleaned)]
    /\ UNCHANGED <<store, backup, launchers, repo, v, t, r, stack, ret, faults, halted>>

\* ---------------------------------------------- _download_and_verify_file
TIdle == [pc |-> "idle", caller |-> "none", pkg |-> PkgA, path |-> XTxt,
          served |-> Absent, expected |-> NoChecksum, skip |-> FALSE,
          prior |-> Absent, before |-> NoDir, f0 |-> 0, got |-> Absent,
          result |-> "none"]

TransferStart(caller, pkg, path, served, expected, skip) ==
    [TIdle EXCEPT !.pc = "download", !.caller = caller, !.pkg = pkg, !.path = path,
                  !.served = served, !.expected = expected, !.skip = skip,
                  !.prior = store[pkg].files[path], !.before = store[pkg],
                  !.f0 = faults]

\* "if expected_checksum and not skip_checksum"
MustVerify(expected, skip) == expected # NoChecksum /\ ~skip

\* requests.get(file_url); response.raise_for_status()
T_Download ==
    /\ ~halted
    /\ t.pc = "download"
    /\ \E f \in FaultChoice :
         /\ Raise(f)
         /\ t' = [t EXCEPT !.pc = IF f \/ t.served = Absent THEN "except" ELSE "write"]
    /\ UNCHANGED <<store, v, halted, txnVars>>

\* with open(temp_file_path, 'wb') as f: f.write(response.content)
T_Write ==
    /\ ~halted
    /\ t.pc = "write"
    /\ \E f \in FaultChoice :
         /\ Raise(f)
         /\ store' = [store EXCEPT ![t.pkg].tmp[t.path] =
                          IF f THEN Truncated ELSE t.served]
         /\ t' = [t EXCEPT !.got = IF f THEN Truncated ELSE t.served,
                           !.pc = IF f THEN "except"
                                  ELSE IF MustVerify(t.expected, t.skip) THEN "verify"
                                  ELSE "remove"]
    /\ UNCHANGED <<v, halted, txnVars>>

\* self._verify_checksum_with_retry(temp_file_path, expected_checksum)
T_Verify ==
    /\ ~halted
    /\ t.pc = "verify"
    /\ v.pc = "idle"
    /\ v' = VerifyStart("transfer", t.pkg, t.path, t.expected)
    /\ t' = [t EXCEPT !.pc = "await"]
    /\ UNCHANGED <<store, faults, halted, txnVars>>

\* the verdict: go on, or remove the temporary file and return False
AfterVerifyBug(res) ==
    CASE res = "true" -> "remove" [] res = "false" -> "remove" [] OTHER -> "except"

AfterVerify(res) ==
    CASE res = "true" -> "remove" [] res = "false" -> "failed" [] OTHER -> "except"

T_Verified ==
    /\ ~halted
    /\ t.pc = "await"
    /\ v.pc = "done"
    /\ v.caller = "transfer"
    /\ LET nxt == AfterVerify(v.result)
       IN IF nxt = "failed"
          THEN /\ store' = [store EXCEPT ![t.pkg].tmp[t.path] = Absent]
               /\ t' = [t EXCEPT !.pc = "done", !.result = "false"]
          ELSE /\ store' = store
               /\ t' = [t EXCEPT !.pc = nxt]
    /\ v' = VIdle
    /\ UNCHANGED <<faults, halted, txnVars>>

\* if os.path.exists(local_file_path): os.remove(local_file_path)
T_Remove ==
    /\ ~halted
    /\ t.pc = "remove"
    /\ \E f \in FaultChoice :
         /\ f => store[t.pkg].files[t.path] # Absent
         /\ Raise(f)
         /\ store' = IF f THEN store
                     ELSE [store EXCEPT ![t.pkg].files[t.path] = Absent]
         /\ t' = [t EXCEPT !.pc = IF f THEN "except" ELSE "rename"]
    /\ UNCHANGED <<v, halted, txnVars>>

\* os.rename(temp_file_path, local_file_path); return True
T_Rename ==
    /\ ~halted
    /\ t.pc = "rename"
    /\ \E f \in FaultChoice :
         /\ Raise(f)
         /\ store' = IF f THEN store
                     ELSE [store EXCEPT ![t.pkg].files[t.path] = store[t.pkg].tmp[t.path],
                                        ![t.pkg].tmp[t.path] = Absent]
         /\ t' = IF f THEN [t EXCEPT !.pc = "except"]
                 ELSE [t EXCEPT !.pc = "done", !.result = "true"]
    /\ UNCHANGED <<v, halted, txnVars>>

\* except Exception: remove the temporary file if it exists; return False
T_Except ==
    /\ ~halted
    /\ t.pc = "except"
    /\ store' = [store EXCEPT ![t.pkg].tmp[t.path] = Absent]
    /\ t' = [t EXCEPT !.pc = "done", !.result = "false"]
    /\ UNCHANGED <<v, faults, halted, txnVars>>

TransferStep ==
    \/ T_Download
    \/ T_Write
    \/ T_Verify
    \/ T_Verified
    \/ T_Remove
    \/ T_Rename
    \/ T_Except

\* an external interrupt between two steps of whatever is running
Interrupt ==
    /\ ~halted
    /\ v.pc # "idle" \/ t.pc # "idle" \/ r.pc # "idle" \/ stack # <<>>
    /\ halted' = TRUE
    /\ UNCHANGED <<store, v, t, faults, txnVars>>

\* ------------------------------------------------------------ transactions
\* the content the repository serves for every file of a package
Served == repo.version

NoRet == [op |-> "none", req |-> PkgA, pkg |-> PkgA, outcome |-> "none", pre |-> NoDir,
          man |-> NoManifest, xfail |-> FALSE, backed |-> FALSE, direct |-> FALSE,
          force |-> FALSE, cause |-> "none"]

Frame(op, pkg, skip, force, direct) ==
    [op |-> op, req |-> pkg, pkg |-> pkg, pc |-> "begin", skip |-> skip, force |-> force,
     direct |-> direct, man |-> NoManifest, i |-> 1, d |-> 1, installed |-> <<>>,
     pre |-> store[pkg], current |-> Absent, xfail |-> FALSE, backed |-> FALSE,
     norepo |-> FALSE, choice |-> "none", cause |-> "none"]

Top == stack[Len(stack)]

With(fr) == [stack EXCEPT ![Len(stack)] = fr]

At(op, pc) == ~halted /\ stack # <<>> /\ Top.op = op /\ Top.pc = pc

Idle == v.pc = "idle" /\ t.pc = "idle" /\ r.pc = "idle" /\ stack = <<>>

\* the call on top of the stack returns (outcome "raise": with an exception,
\* which the install that called it re-raises; anything else: normally)
Return(fr, outcome) ==
    /\ ret' = [op |-> fr.op, req |-> fr.req, pkg |-> fr.pkg, outcome |-> outcome,
               pre |-> fr.pre, man |-> fr.man, xfail |-> fr.xfail, backed |-> fr.backed,
               direct |-> fr.direct, force |-> fr.force, cause |-> fr.cause]
    /\ stack' = IF Len(stack) = 1 THEN <<>>
                ELSE LET parent == stack[Len(stack) - 1]
                     IN Append(SubSeq(stack, 1, Len(stack) - 2),
                               IF outcome = "raise" THEN [parent EXCEPT !.pc = "raise"]
                               ELSE [parent EXCEPT !.d = @ + 1])

\* os.makedirs(<package dir>/<dirname(file)>, exist_ok=True)
MakeDirs(d, sub) == [d EXCEPT !.exists = TRUE, !.subdirs = @ \cup DirChain(sub)]

\* ------------------------------------------------------------------ install
UserInstall ==
    /\ ~halted /\ Idle
    /\ \E pkg \in {PkgA, Protected}, skip \in BOOLEAN :
         stack' = <<Frame("install", pkg, skip, FALSE, TRUE)>>
    /\ ret' = NoRet
    /\ UNCHANGED <<store, backup, launchers, repo, v, t, r, faults, halted, jsonc>>

\* "if package_name == 'com.mralfiem591.paxd': ... return" of install and uninstall
RefusedBug(pkg) == FALSE

Refused(pkg) == pkg = Protected

\* what install does first inside its "try": the probe of the repository
FirstInTryBug == "exists"

FirstInTry == "probe"

\* the protected identifier is refused
I_Begin ==
    /\ At("install", "begin")
    /\ IF Refused(Top.pkg)
       THEN Return(Top, "refused")
       ELSE stack' = With([Top EXCEPT !.pc = FirstInTry]) /\ ret' = ret
    /\ UNCHANGED <<store, backup, launchers, repo, v, t, r, faults, halted, jsonc>>

\* _read_repository_url, _resolve_repository_url, fetch of <repo>/paxd
I_Probe ==
    /\ At("install", "probe")
    /\ \E f \in FaultChoice :
         /\ Raise(f)
         /\ IF f THEN Return(Top, "raise")
            ELSE stack' = With([Top EXCEPT !.pc = "exists"]) /\ ret' = ret
    /\ UNCHANGED <<store, backup, launchers, repo, v, t, r, halted, jsonc>>

\* the existing directory after "Reinstall?": removed when the answer is yes
ReinstallBug(d, yes) == NoDir

Reinstall(d, yes) == IF yes THEN NoDir ELSE d

\* already installed: Confirm.ask, then shutil.rmtree; or return
I_Exists ==
    /\ At("install", "exists")
    /\ IF store[Top.pkg].exists
       THEN \E yes \in BOOLEAN :
              /\ store' = [store EXCEPT ![Top.pkg] = Reinstall(@, yes)]
              /\ IF yes
                 THEN /\ stack' = With([Top EXCEPT !.pc = "resolve"])
                      /\ ret' = ret
                 ELSE Return(Top, "declined")
       ELSE /\ store' = store
            /\ stack' = With([Top EXCEPT !.pc = "resolve"])
            /\ ret' = ret
    /\ UNCHANGED <<backup, launchers, repo, v, t, r, faults, halted, jsonc>>

I_Resolve ==
    /\ At("install", "resolve")
    /\ r.pc = "idle"
    /\ r' = ResolveStart("txn", Top.pkg)
    /\ stack' = With([Top EXCEPT !.pc = "resolving"])
    /\ UNCHANGED <<store, backup, launchers, repo, v, t, ret, faults, halted, jsonc>>

I_Resolved ==
    /\ At("install", "resolving")
    /\ r.pc = "done" /\ r.caller = "txn"
    /\ r' = RIdle
    /\ IF r.result = "ok"
       THEN stack' = With([Top EXCEPT !.pc = "deps", !.man = r.man]) /\ ret' = ret
       ELSE Return(Top, "raise")
    /\ UNCHANGED <<store, backup, launchers, repo, v, t, faults, halted, jsonc>>

\* dep.startswith("pip:"): os.system("pip install ...")
I_DepPip ==
    /\ At("install", "deps")
    /\ Top.d <= Len(Top.man.depend)
    /\ Top.man.depend[Top.d].kind = "pip"
    /\ stack' = With([Top EXCEPT !.d = @ + 1])
    /\ UNCHANGED <<store, backup, launchers, repo, v, t, r, ret, faults, halted, jsonc>>

\* "if not self.is_installed(paxd_pkg)"
MustInstallBug(d) == TRUE

MustInstall(d) == ~d.exists

\* dep.startswith("paxd:"): self.install(dep, skip_checksum) unless installed;
\* a call nested deeper than the interpreter allows raises RecursionError
I_DepPaxd ==
    /\ At("install", "deps")
    /\ Top.d <= Len(Top.man.depend)
    /\ Top.man.depend[Top.d].kind = "paxd"
    /\ LET dep == Top.man.depend[Top.d].id
       IN IF ~MustInstall(store[dep])
          THEN stack' = With([Top EXCEPT !.d = @ + 1]) /\ ret' = ret
          ELSE IF Len(stack) >= MaxDepth
          THEN Return(Top, "raise")
          ELSE /\ stack' = Append(stack, Frame("install", dep, Top.skip, FALSE, FALSE))
               /\ ret' = NoRet
    /\ UNCHANGED <<store, backup, launchers, repo, v, t, r, faults, halted, jsonc>>

\* "if include_files:" and os.makedirs(package_install_path, exist_ok=True)
I_DepsDone ==
    /\ At("install", "deps")
    /\ Top.d > Len(Top.man.depend)
    /\ IF Top.man.include = <<>>
       THEN /\ stack' = With([Top EXCEPT !.pc = "launcher"])
            /\ UNCHANGED <<store, faults, ret>>
       ELSE \E f \in FaultChoice :
              /\ Raise(f)
              /\ IF f THEN store' = store /\ Return(Top, "raise")
                 ELSE /\ store' = [store EXCEPT ![Top.pkg] = MakeDirs(@, <<>>)]
                      /\ stack' = With([Top EXCEPT !.pc = "mkdir"])
                      /\ ret' = ret
    /\ UNCHANGED <<backup, launchers, repo, v, t, r, halted, jsonc>>

\* os.makedirs(os.path.dirname(local_file_path), exist_ok=True); an exception
\* here leaves the loop with no rollback
I_MakeDirs ==
    /\ At("install", "mkdir")
    /\ Top.i <= Len(Top.man.include)
    /\ \E f \in FaultChoice :
         /\ Raise(f)
         /\ IF f THEN store' = store /\ Return(Top, "raise")
            ELSE /\ store' = [store EXCEPT ![Top.pkg] =
                                 MakeDirs(@, Dirname(Top.man.include[Top.i]))]
                 /\ stack' = With([Top EXCEPT !.pc = "xfer"])
                 /\ ret' = ret
    /\ UNCHANGED <<backup, launchers, repo, v, t, r, halted, jsonc>>

I_Transfer ==
    /\ At("install", "xfer")
    /\ t.pc = "idle"
    /\ LET file == Top.man.include[Top.i]
       IN t' = TransferStart("txn", Top.pkg, file, Served, Top.man.checksum[file],
                             Top.skip)
    /\ stack' = With([Top EXCEPT !.pc = "xfering"])
    /\ UNCHANGED <<store, backup, launchers, repo, v, r, ret, faults, halted, jsonc>>

I_Transferred ==
    /\ At("install", "xfering")
    /\ t.pc = "done" /\ t.caller = "txn"
    /\ t' = TIdle
    /\ stack' = With(IF t.result = "true"
                     THEN [Top EXCEPT !.pc = "mkdir", !.i = @ + 1,
                                      !.installed = Append(@, t.path)]
                     ELSE [Top EXCEPT !.pc = "rollback", !.xfail = TRUE])
    /\ UNCHANGED <<store, backup, launchers, repo, v, r, ret, faults, halted, jsonc>>

\* the installed files as the rollback loop leaves them: each removed, except
\* those whose os.remove raised (the exception is logged, the loop goes on)
Removed(d, installed, stuck) ==
    LET gone == {installed[k] : k \in 1..Len(installed)} \ stuck
    IN [d EXCEPT !.files = [p \in Paths |-> IF p \in gone THEN Absent ELSE @[p]]]

\* the directory as the rollback leaves it: the installed files removed, and
\* the directory itself removed when os.listdir finds nothing in it, unless
\* os.rmdir raised (logged as well)
RolledBack(d, installed, stuck, rmdirFails) ==
    IF IsEmptyDir(Removed(d, installed, stuck)) /\ ~rmdirFails THEN NoDir
    ELSE Removed(d, installed, stuck)

\* the failure reported after the rollback: "raise Exception(f'Checksum
\* verification failed for {file}')", whatever the rollback itself met
\* a rollback that also removed the dependencies installed by the same call
RollbackScopeBug(fr) ==
    {fr.pkg} \cup {fr.man.depend[k].id : k \in {j \in 1..Len(fr.man.depend) :
                                                fr.man.depend[j].kind = "paxd"}}

\* the packages whose directories the rollback touches: installed_files holds
\* paths under package_install_path only
RollbackScope(fr) == {fr.pkg}

I_Rollback ==
    /\ At("install", "rollback")
    /\ \E f \in FaultChoice, rmdirFails \in BOOLEAN,
          stuck \in {{}} \cup {{Top.installed[k]} : k \in 1..Len(Top.installed)} :
         /\ f <=> (stuck # {} \/ rmdirFails)
         /\ ~(stuck # {} /\ rmdirFails)
         /\ rmdirFails => IsEmptyDir(Removed(store[Top.pkg], Top.installed, stuck))
         /\ Raise(f)
         /\ store' = [q \in Pkgs |->
                          IF q = Top.pkg
                          THEN RolledBack(store[q], Top.installed, stuck, rmdirFails)
                          ELSE IF q \in RollbackScope(Top) THEN NoDir ELSE store[q]]
    /\ Return([Top EXCEPT !.cause = "transfer"], "raise")
    /\ UNCHANGED <<backup, launchers, repo, v, t, r, halted, jsonc>>

I_FilesDone ==
    /\ At("install", "mkdir")
    /\ Top.i > Len(Top.man.include)
    /\ stack' = With([Top EXCEPT !.pc = "launcher"])
    /\ UNCHANGED <<store, backup, launchers, repo, v, t, r, ret, faults, halted, jsonc>>

\* "if mainfile:" os.makedirs(<original client>/bin, exist_ok=True)
I_Launcher ==
    /\ At("install", "launcher")
    /\ IF Top.man.mainfile = NoPath
       THEN /\ stack' = With([Top EXCEPT !.pc = "version"])
            /\ UNCHANGED <<store, faults, ret>>
       ELSE \E f \in FaultChoice :
              /\ Raise(f)
              /\ IF f THEN store' = store /\ Return(Top, "raise")
                 ELSE /\ store' = [store EXCEPT ![Protected] = MakeDirs(@, BinDir)]
                      /\ stack' = With([Top EXCEPT !.pc = "bat"])
                      /\ ret' = ret
    /\ UNCHANGED <<backup, launchers, repo, v, t, r, halted, jsonc>>

\* os.path.exists(bat_file_path)
LauncherExists(alias) == alias \in Aliases /\ launchers[alias] # NoTarget

\* choice 2: "if os.path.exists(package_install_path): shutil.rmtree(...)"
CancelledBug(d) == d

Cancelled(d) == NoDir

\* no launcher of that alias: write it; one exists: replace it (1), cancel
\* and remove the package directory (2), or write it after manual resolution (3)
I_WriteLauncher ==
    /\ At("install", "bat")
    /\ LET alias  == AliasOf(Top.man)
           target == [pkg |-> Top.pkg, main |-> Top.man.mainfile]
       IN \E choice \in {"none", "1", "2", "3"}, f \in FaultChoice :
            /\ Raise(f)
            /\ choice = "none" <=> ~LauncherExists(alias)
            /\ (choice = "2" /\ f) => store[Top.pkg].exists
            /\ IF choice = "2" /\ ~f
               THEN /\ store' = [store EXCEPT ![Top.pkg] = Cancelled(@)]
                    /\ launchers' = launchers
                    /\ Return(Top, "cancelled")
               ELSE IF f \/ LauncherPathMissing(alias)
               THEN /\ UNCHANGED <<store, launchers>>
                    /\ Return(Top, "raise")
               ELSE /\ store' = store
                    /\ launchers' = [launchers EXCEPT ![alias] = target]
                    /\ stack' = With([Top EXCEPT !.pc = "version", !.choice = choice])
                    /\ ret' = ret
    /\ UNCHANGED <<backup, repo, v, t, r, halted, jsonc>>

\* open(<package dir>/.VERSION, 'w') raises when the directory is not there
I_Version ==
    /\ At("install", "version")
    /\ \E f \in FaultChoice :
         /\ Raise(f)
         /\ IF f \/ ~store[Top.pkg].exists
            THEN store' = store /\ Return(Top, "raise")
            ELSE /\ store' = [store EXCEPT ![Top.pkg].version = VersionOf(Top.man)]
                 /\ stack' = With([Top EXCEPT !.pc = "user"])
                 /\ ret' = ret
    /\ UNCHANGED <<backup, launchers, repo, v, t, r, halted, jsonc>>

\* open(<package dir>/.USER_INSTALLED, 'w'), in every install
I_UserMarker ==
    /\ At("install", "user")
    /\ \E f \in FaultChoice :
         /\ Raise(f)
         /\ IF f THEN store' = store /\ Return(Top, "raise")
            ELSE /\ store' = [store EXCEPT ![Top.pkg].user = TRUE]
                 /\ Return(Top, "ok")
    /\ UNCHANGED <<backup, launchers, repo, v, t, r, halted, jsonc>>

\* the exception of a failed dependency swallowed, the loop going on
I_PropagateBug ==
    /\ At("install", "raise")
    /\ stack' = With([Top EXCEPT !.pc = "deps", !.d = @ + 1])
    /\ UNCHANGED <<store, backup, launchers, repo, v, t, r, ret, faults, halted, jsonc>>

\* "except Exception as e: ... raise" of the install that called a failed install
I_Propagate ==
    /\ At("install", "raise")
    /\ Return(Top, "raise")
    /\ UNCHANGED <<store, backup, launchers, repo, v, t, r, faults, halted, jsonc>>

InstallStep ==
    \/ I_Begin
    \/ I_Probe
    \/ I_Exists
    \/ I_Resolve
    \/ I_Resolved
    \/ I_DepPip
    \/ I_DepPaxd
    \/ I_DepsDone
    \/ I_MakeDirs
    \/ I_Transfer
    \/ I_Transferred
    \/ I_Rollback
    \/ I_FilesDone
    \/ I_Launcher
    \/ I_WriteLauncher
    \/ I_Version
    \/ I_UserMarker
    \/ I_Propagate

\* ------------------------------------------------------------------- update
UserUpdate ==
    /\ ~halted /\ Idle
    /\ \E pkg \in {PkgA, SelfId, Protected}, force \in BOOLEAN, skip \in BOOLEAN :
         stack' = <<Frame("update", pkg, skip, force, TRUE)>>
    /\ ret' = NoRet
    /\ UNCHANGED <<store, backup, launchers, repo, v, t, r, faults, halted, jsonc>>

\* the protected identifier is redirected to this client's own identifier;
\* not installed: return; else read .VERSION ("Unknown" when it is absent)
\* "package_name = 'com.mralfiem591.paxd-imp'" for the protected identifier
UpdateTarget(pkg) == IF pkg = Protected THEN SelfId ELSE pkg

U_Begin ==
    /\ At("update", "begin")
    /\ LET pkg == UpdateTarget(Top.pkg)
           fr  == [Top EXCEPT !.pkg = pkg, !.pre = store[pkg]]
       IN IF ~store[pkg].exists
          THEN Return(fr, "notinstalled")
          ELSE /\ stack' = With([fr EXCEPT !.pc = "resolve",
                                           !.current = ReadVersion(store[pkg])])
               /\ ret' = ret
    /\ UNCHANGED <<store, backup, launchers, repo, v, t, r, faults, halted, jsonc>>

U_Resolve ==
    /\ At("update", "resolve")
    /\ r.pc = "idle"
    /\ r' = ResolveStart("txn", Top.pkg)
    /\ stack' = With([Top EXCEPT !.pc = "resolving"])
    /\ UNCHANGED <<store, backup, launchers, repo, v, t, ret, faults, halted, jsonc>>

\* "if current_version == latest_version and not force: return"
UpToDateBug(current, latest, force) == current = latest

UpToDate(current, latest, force) == current = latest /\ ~force

U_Resolved ==
    /\ At("update", "resolving")
    /\ r.pc = "done" /\ r.caller = "txn"
    /\ r' = RIdle
    /\ IF r.result # "ok"
       THEN Return(Top, "failed")
       ELSE IF UpToDate(Top.current, VersionOf(r.man), Top.force)
       THEN Return([Top EXCEPT !.man = r.man], "uptodate")
       ELSE stack' = With([Top EXCEPT !.pc = "backup", !.man = r.man]) /\ ret' = ret
    /\ UNCHANGED <<store, backup, launchers, repo, v, t, faults, halted, jsonc>>

\* where update goes after the backup is taken: "if include_files:" guards the
\* file loop and everything after it, the removal of the backup included
AfterBackup(include) == IF include = <<>> THEN "return" ELSE "mkdir"

\* shutil.rmtree(backup_dir) if it exists; shutil.copytree(package dir, backup_dir)
U_Backup ==
    /\ At("update", "backup")
    /\ \E f \in FaultChoice :
         /\ Raise(f)
         /\ IF f
            THEN /\ backup' = [backup EXCEPT ![Top.pkg] = EmptyDir]
                 /\ stack' = With([Top EXCEPT !.pc = "handler"])
            ELSE /\ backup' = [backup EXCEPT ![Top.pkg] = store[Top.pkg]]
                 /\ stack' = With([Top EXCEPT !.pc = AfterBackup(Top.man.include),
                                              !.backed = TRUE])
    /\ UNCHANGED <<store, launchers, repo, v, t, r, ret, halted, jsonc>>

\* no include files: nothing more is done, update returns
U_NoFiles ==
    /\ At("update", "return")
    /\ Return(Top, "ok")
    /\ UNCHANGED <<store, backup, launchers, repo, v, t, r, faults, halted, jsonc>>

\* os.makedirs(os.path.dirname(local_file_path), exist_ok=True)
U_MakeDirs ==
    /\ At("update", "mkdir")
    /\ Top.i <= Len(Top.man.include)
    /\ \E f \in FaultChoice :
         /\ Raise(f)
         /\ IF f THEN store' = store /\ stack' = With([Top EXCEPT !.pc = "handler"])
            ELSE /\ store' = [store EXCEPT ![Top.pkg] =
                                 MakeDirs(@, Dirname(Top.man.include[Top.i]))]
                 /\ stack' = With([Top EXCEPT !.pc = "xfer"])
    /\ UNCHANGED <<backup, launchers, repo, v, t, r, ret, halted, jsonc>>

U_Transfer ==
    /\ At("update", "xfer")
    /\ t.pc = "idle"
    /\ LET file == Top.man.include[Top.i]
       IN t' = TransferStart("txn", Top.pkg, file, Served, Top.man.checksum[file],
                             Top.skip)
    /\ stack' = With([Top EXCEPT !.pc = "xfering"])
    /\ UNCHANGED <<store, backup, launchers, repo, v, r, ret, faults, halted, jsonc>>

U_Transferred ==
    /\ At("update", "xfering")
    /\ t.pc = "done" /\ t.caller = "txn"
    /\ t' = TIdle
    /\ stack' = With(IF t.result = "true"
                     THEN [Top EXCEPT !.pc = "mkdir", !.i = @ + 1,
                                      !.installed = Append(@, t.path)]
                     ELSE [Top EXCEPT !.pc = "restore", !.xfail = TRUE])
    /\ UNCHANGED <<store, backup, launchers, repo, v, r, ret, faults, halted, jsonc>>

\* the exception that reaches update's handler from the restore path: the one
\* of the restore step that raised (none of them is guarded), else
\* "Update failed: checksum verification failed for {file}"
RestoreCause(f) == IF f THEN "restore" ELSE "transfer"

\* shutil.rmtree(package dir); shutil.copytree(backup_dir, package dir);
\* shutil.rmtree(backup_dir); raise. A step that raises ends the restore there:
\* the rmtree with the directory still in place, the copytree with no
\* directory or one that holds nothing yet, the last rmtree with the backup
\* still in place
U_Restore ==
    /\ At("update", "restore")
    /\ \E f \in FaultChoice, stage \in {"rmtree", "copytree", "cleanup"},
          left \in {NoDir, EmptyDir} :
         /\ ~f => stage = "rmtree" /\ left = NoDir
         /\ (f /\ stage # "copytree") => left = NoDir
         /\ Raise(f)
         /\ store' = IF f /\ stage = "rmtree" THEN store
                     ELSE IF f /\ stage = "copytree"
                     THEN [store EXCEPT ![Top.pkg] = left]
                     ELSE [store EXCEPT ![Top.pkg] = backup[Top.pkg]]
         /\ backup' = IF f THEN backup ELSE [backup EXCEPT ![Top.pkg] = NoDir]
         /\ stack' = With([Top EXCEPT !.pc = "handler", !.cause = RestoreCause(f)])
    /\ UNCHANGED <<launchers, repo, v, t, r, ret, halted, jsonc>>

U_FilesDone ==
    /\ At("update", "mkdir")
    /\ Top.i > Len(Top.man.include)
    /\ stack' = With([Top EXCEPT !.pc = "version"])
    /\ UNCHANGED <<store, backup, launchers, repo, v, t, r, ret, faults, halted, jsonc>>

\* an update that wrote .USER_INSTALLED as well, as install does
MarkersWrittenBug(d, ver) == [d EXCEPT !.version = ver, !.user = TRUE]

\* the markers update writes: .VERSION and no other
MarkersWritten(d, ver) == [d EXCEPT !.version = ver]

\* open(<package dir>/.VERSION, 'w'): write latest_version
U_Version ==
    /\ At("update", "version")
    /\ \E f \in FaultChoice :
         /\ Raise(f)
         /\ IF f THEN store' = store /\ stack' = With([Top EXCEPT !.pc = "handler"])
            ELSE /\ store' = [store EXCEPT ![Top.pkg] =
                                 MarkersWritten(@, VersionOf(Top.man))]
                 /\ stack' = With([Top EXCEPT !.pc = "bat"])
    /\ UNCHANGED <<backup, launchers, repo, v, t, r, ret, halted, jsonc>>

\* "if mainfile:" os.makedirs(bin); open(bat_file_path, 'w'), whatever is there
U_Launcher ==
    /\ At("update", "bat")
    /\ IF Top.man.mainfile = NoPath
       THEN /\ stack' = With([Top EXCEPT !.pc = "cleanup"])
            /\ UNCHANGED <<store, launchers, faults>>
       ELSE \E f \in FaultChoice :
              LET alias == AliasOf(Top.man)
              IN /\ Raise(f)
                 /\ IF f
                    THEN /\ UNCHANGED <<store, launchers>>
                         /\ stack' = With([Top EXCEPT !.pc = "handler"])
                    ELSE /\ store' = [store EXCEPT ![Protected] = MakeDirs(@, BinDir)]
                         /\ IF LauncherPathMissing(alias)
                            THEN /\ launchers' = launchers
                                 /\ stack' = With([Top EXCEPT !.pc = "handler"])
                            ELSE /\ launchers' = [launchers EXCEPT ![alias] =
                                                    [pkg |-> Top.pkg, main |-> Top.man.mainfile]]
                                 /\ stack' = With([Top EXCEPT !.pc = "cleanup"])
    /\ UNCHANGED <<backup, repo, v, t, r, ret, halted, jsonc>>

\* "Clean up backup on success"
U_Cleanup ==
    /\ At("update", "cleanup")
    /\ backup' = [backup EXCEPT ![Top.pkg] = NoDir]
    /\ Return(Top, "ok")
    /\ UNCHANGED <<store, launchers, repo, v, t, r, faults, halted, jsonc>>

\* "except Exception as update_error": remove the backup if it exists, raise;
\* the outer handler prints the error and update returns
U_Handler ==
    /\ At("update", "handler")
    /\ backup' = [backup EXCEPT ![Top.pkg] = NoDir]
    /\ Return(Top, "failed")
    /\ UNCHANGED <<store, launchers, repo, v, t, r, faults, halted, jsonc>>

UpdateStep ==
    \/ U_Begin
    \/ U_Resolve
    \/ U_Resolved
    \/ U_Backup
    \/ U_NoFiles
    \/ U_MakeDirs
    \/ U_Transfer
    \/ U_Transferred
    \/ U_Restore
    \/ U_FilesDone
    \/ U_Version
    \/ U_Launcher
    \/ U_Cleanup
    \/ U_Handler

\* ---------------------------------------------------------------- uninstall
UserUninstall ==
    /\ ~halted /\ Idle
    /\ \E pkg \in {PkgA, SelfId, Protected} :
         stack' = <<Frame("uninstall", pkg, FALSE, FALSE, TRUE)>>
    /\ ret' = NoRet
    /\ UNCHANGED <<store, backup, launchers, repo, v, t, r, faults, halted, jsonc>>

\* the protected identifier is refused; a package that is not installed: return
Un_Begin ==
    /\ At("uninstall", "begin")
    /\ IF Refused(Top.pkg) THEN Return(Top, "refused")
       ELSE IF ~store[Top.pkg].exists THEN Return(Top, "notinstalled")
       ELSE stack' = With([Top EXCEPT !.pc = "resolve"]) /\ ret' = ret
    /\ UNCHANGED <<store, backup, launchers, repo, v, t, r, faults, halted, jsonc>>

\* first "try": _read_repository_url, _resolve_repository_url (when they raise,
\* repo_url stays unbound), then _fetch_package_metadata for the display name
Un_Resolve ==
    /\ At("uninstall", "resolve")
    /\ r.pc = "idle"
    /\ \E f \in FaultChoice :
         /\ Raise(f)
         /\ IF f
            THEN /\ r' = r
                 /\ stack' = With([Top EXCEPT !.pc = "confirm", !.norepo = TRUE])
            ELSE /\ r' = ResolveStart("txn", Top.pkg)
                 /\ stack' = With([Top EXCEPT !.pc = "resolving"])
    /\ UNCHANGED <<store, backup, launchers, repo, v, t, ret, halted, jsonc>>

\* "except: display_name = package_name"
Un_Resolved ==
    /\ At("uninstall", "resolving")
    /\ r.pc = "done" /\ r.caller = "txn"
    /\ r' = RIdle
    /\ stack' = With([Top EXCEPT !.pc = "confirm"])
    /\ UNCHANGED <<store, backup, launchers, repo, v, t, ret, faults, halted, jsonc>>

\* Confirm.ask("Are you sure you want to uninstall ...")
Un_Confirm ==
    /\ At("uninstall", "confirm")
    /\ \E yes \in BOOLEAN :
         IF yes THEN stack' = With([Top EXCEPT !.pc = "resolve2"]) /\ ret' = ret
         ELSE Return(Top, "declined")
    /\ UNCHANGED <<store, backup, launchers, repo, v, t, r, faults, halted, jsonc>>

\* second "try": _fetch_package_metadata(repo_url, ...); with repo_url unbound
\* this raises at once and the launcher is left alone
Un_Resolve2 ==
    /\ At("uninstall", "resolve2")
    /\ r.pc = "idle"
    /\ IF Top.norepo
       THEN r' = r /\ stack' = With([Top EXCEPT !.pc = "rmtree"])
       ELSE r' = ResolveStart("txn", Top.pkg) /\ stack' = With([Top EXCEPT !.pc = "unlink"])
    /\ UNCHANGED <<store, backup, launchers, repo, v, t, ret, faults, halted, jsonc>>

\* "if mainfile:" remove bin/<alias>.bat if it exists; any exception is logged
Un_Launcher ==
    /\ At("uninstall", "unlink")
    /\ r.pc = "done" /\ r.caller = "txn"
    /\ r' = RIdle
    /\ \E f \in FaultChoice :
         LET alias == AliasOf(r.man)
             there == /\ r.result = "ok"
                      /\ r.man.mainfile # NoPath
                      /\ alias \in Aliases
                      /\ launchers[alias] # NoTarget
         IN /\ f => there
            /\ Raise(f)
            /\ launchers' = IF there /\ ~f THEN [launchers EXCEPT ![alias] = NoTarget]
                            ELSE launchers
    /\ stack' = With([Top EXCEPT !.pc = "rmtree", !.man = r.man])
    /\ UNCHANGED <<store, backup, repo, v, t, ret, halted, jsonc>>

\* shutil.rmtree(package_install_path); an exception is printed, not raised
Un_Rmtree ==
    /\ At("uninstall", "rmtree")
    /\ \E f \in FaultChoice :
         /\ Raise(f)
         /\ IF f THEN store' = store /\ Return(Top, "failed")
            ELSE store' = [store EXCEPT ![Top.pkg] = NoDir] /\ Return(Top, "ok")
    /\ UNCHANGED <<backup, launchers, repo, v, t, r, halted, jsonc>>

UninstallStep ==
    \/ Un_Begin
    \/ Un_Resolve
    \/ Un_Resolved
    \/ Un_Confirm
    \/ Un_Resolve2
    \/ Un_Launcher
    \/ Un_Rmtree

\* --------------------------------------------------------------- repository
\* the checksum the manifest declares for a file: none, the digest of the
\* content the repository serves, or another digest
Declared(kind, ver) ==
    CASE kind = "good" -> Sha(ver)
      [] kind = "bad"  -> Sha((ver % MaxVersion) + 1)
      [] OTHER         -> NoChecksum

IncludeLists == {<<>>, <<XTxt>>, <<XTxt, SrcM>>, <<SrcM, XTxt>>}

Listed(include) == {include[k] : k \in 1..Len(include)}

\* which checksums a manifest declares: none, the right one for every file, or
\* the right one for every file but one
ChecksumKinds(inc) ==
    {[p \in Paths |-> "none"], [p \in Paths |-> "good"]}
    \cup {[p \in Paths |-> IF p = b THEN "bad" ELSE "good"] : b \in Listed(inc)}

\* the package documents a repository may hold for package a.b at a version
DocA(ver, inc, kinds, main, pip, dep) ==
    Document(YamlData(PkgA, ver, inc, pip, dep, main, NoAlias,
                      [p \in Paths |-> IF p \in Listed(inc) THEN Declared(kinds[p], ver)
                                       ELSE NoChecksum], {}))

DocsA(ver) ==
    {DocA(ver, inc, kinds, main, <<>>, <<>>) :
       inc \in IncludeLists, kinds \in UNION {ChecksumKinds(i) : i \in IncludeLists},
       main \in {NoPath, XTxt}}
    \cup {DocA(ver, <<XTxt>>, [p \in Paths |-> "none"], NoPath, <<"requests">>, dep) :
             dep \in {<<PkgD>>, <<Protected>>}}

DocD(ver) ==
    Document(YamlData(PkgD, ver, <<XTxt>>, <<>>, <<>>, NoPath, NoAlias, NoChecksums, {}))

RepoAt(ver, docA) ==
    [docs |-> [p \in Pkgs |->
                 CASE p = PkgA -> [NoDocs EXCEPT !["package.yaml"] = docA]
                   [] p = PkgD -> [NoDocs EXCEPT !["paxd.yaml"] = DocD(ver)]
                   [] OTHER    -> NoDocs],
     version |-> ver]

\* the repository publishes the next version of its packages
Publish ==
    /\ ~halted /\ Idle
    /\ repo.version < MaxVersion
    /\ \E docA \in DocsA(repo.version + 1) : repo' = RepoAt(repo.version + 1, docA)
    /\ UNCHANGED <<store, backup, launchers, v, t, r, stack, ret, faults, halted, jsonc>>

\* --------------------------------------------------- direct calls (inputs)
\* verify(path, expected) called on any staged file and any expected string
CallVerify ==
    /\ ~halted
    /\ v.pc = "idle" /\ t.pc = "idle" /\ r.pc = "idle" /\ stack = <<>>
    /\ \E p \in Paths, e \in ExpectedSet \ {NoChecksum} :
         v' = VerifyStart("direct", PkgA, p, e)
    /\ UNCHANGED <<store, t, faults, halted, txnVars>>

ReturnVerify ==
    /\ ~halted
    /\ v.pc = "done" /\ v.caller = "direct"
    /\ v' = VIdle
    /\ UNCHANGED <<store, t, faults, halted, txnVars>>

\* transfer(remoteURL, finalPath, expectedChecksum?, skipVerification) called
\* on any final path whose parent directory exists
CallTransfer ==
    /\ ~halted
    /\ v.pc = "idle" /\ t.pc = "idle" /\ r.pc = "idle" /\ stack = <<>>
    /\ \E p \in Paths, c \in Contents \cup {Absent}, e \in ExpectedSet, s \in BOOLEAN :
         /\ store[PkgA].exists
         /\ DirChain(Dirname(p)) \subseteq store[PkgA].subdirs
         /\ t' = TransferStart("direct", PkgA, p, c, e, s)
    /\ UNCHANGED <<store, v, faults, halted, txnVars>>

ReturnTransfer ==
    /\ ~halted
    /\ t.pc = "done" /\ t.caller = "direct"
    /\ t' = TIdle
    /\ UNCHANGED <<store, v, faults, halted, txnVars>>

\* resolve(repository, package) called against any state of the three sources
CallResolve ==
    /\ ~halted
    /\ v.pc = "idle" /\ t.pc = "idle" /\ r.pc = "idle" /\ stack = <<>>
    /\ r' = ResolveStart("direct", PkgA)
    /\ UNCHANGED <<store, backup, launchers, repo, v, t, stack, ret, faults, halted, jsonc>>

ReturnResolve ==
    /\ ~halted
    /\ r.pc = "done" /\ r.caller = "direct"
    /\ r' = RIdle
    /\ UNCHANGED <<store, backup, launchers, repo, v, t, stack, ret, faults, halted, jsonc>>

\* ------------------------------------------------------------------- inits
InitIdle ==
    /\ backup = [p \in Pkgs |-> NoDir]
    /\ launchers = NoLaunchers
    /\ repo = EmptyRepo
    /\ v = VIdle
    /\ t = TIdle
    /\ r = RIdle
    /\ stack = <<>>
    /\ ret = NoRet
    /\ faults = 0
    /\ halted = FALSE
    /\ jsonc = JIdle

\* a staged file of any content, or none, to verify
InitVerify ==
    /\ InitIdle
    /\ \E c \in Contents \cup {Absent} :
         store = [p \in Pkgs |-> IF p = PkgA
                                 THEN [EmptyDir EXCEPT !.tmp[XTxt] = c,
                                                       !.tmp[SrcM] = c,
                                                       !.subdirs = SubDirs]
                                 ELSE NoDir]

NextVerify == CallVerify \/ V_Split \/ V_Attempt \/ ReturnVerify

SpecVerify == InitVerify /\ [][NextVerify]_vars

\* a package directory holding any earlier version of the files, or none
InitTransfer ==
    /\ InitIdle
    /\ \E fs \in [Paths -> Contents \cup {Absent}] :
         store = [p \in Pkgs |-> IF p = PkgA
                                 THEN [EmptyDir EXCEPT !.files = fs,
                                                       !.subdirs = SubDirs]
                                 ELSE NoDir]

NextTransfer ==
    \/ CallTransfer
    \/ TransferStep
    \/ V_Split
    \/ V_Attempt
    \/ ReturnTransfer
    \/ Interrupt

SpecTransfer == InitTransfer /\ [][NextTransfer]_vars

\* what each source may hold: nothing, malformed text, a document lacking a
\* required field, or a complete document (each source's document names itself)
SourceDocs(n) ==
    {Unreachable, Malformed}
    \cup (IF n \in YamlSources
          THEN {Document(YamlData(n, 1, <<XTxt>>, <<>>, <<>>, XTxt, NoAlias, NoChecksums, m)) :
                  m \in {{}, {"license"}}}
          ELSE {Document(Manifest(n, 1, <<XTxt>>, <<>>, XTxt, NoAlias, NoChecksums, m)) :
                  m \in {{}, {"license"}}})

InitResolve ==
    /\ store = [p \in Pkgs |-> NoDir]
    /\ backup = [p \in Pkgs |-> NoDir]
    /\ launchers = NoLaunchers
    /\ \E ds \in [SourceNames -> UNION {SourceDocs(n) : n \in SourceNames}] :
         /\ \A n \in SourceNames : ds[n] \in SourceDocs(n)
         /\ repo = [EmptyRepo EXCEPT !.docs[PkgA] = ds]
    /\ v = VIdle
    /\ t = TIdle
    /\ r = RIdle
    /\ stack = <<>>
    /\ ret = NoRet
    /\ faults = 0
    /\ halted = FALSE
    /\ jsonc = JIdle

NextResolve == CallResolve \/ R_Try \/ ReturnResolve

SpecResolve == InitResolve /\ [][NextResolve]_vars

\* any commented-JSON text of up to MaxTextLen characters, to be cleaned
InitJsonc ==
    /\ store = [p \in Pkgs |-> NoDir]
    /\ backup = [p \in Pkgs |-> NoDir]
    /\ launchers = NoLaunchers
    /\ repo = EmptyRepo
    /\ v = VIdle
    /\ t = TIdle
    /\ r = RIdle
    /\ stack = <<>>
    /\ ret = NoRet
    /\ faults = 0
    /\ halted = FALSE
    /\ \E text \in JsoncTexts : jsonc = ParseStart(text)

NextJsonc == J_Split \/ J_Line \/ J_Join

SpecJsonc == InitJsonc /\ [][NextJsonc]_vars

\* an empty package store, and a repository holding any first version
Init ==
    /\ store = [p \in Pkgs |-> NoDir]
    /\ backup = [p \in Pkgs |-> NoDir]
    /\ launchers = NoLaunchers
    /\ \E docA \in DocsA(1) : repo = RepoAt(1, docA)
    /\ v = VIdle
    /\ t = TIdle
    /\ r = RIdle
    /\ stack = <<>>
    /\ ret = NoRet
    /\ faults = 0
    /\ halted = FALSE
    /\ jsonc = JIdle

Next ==
    \/ UserInstall
    \/ UserUpdate
    \/ Publish
    \/ UserUninstall
    \/ InstallStep
    \/ UpdateStep
    \/ UninstallStep
    \/ R_Try
    \/ TransferStep
    \/ V_Split
    \/ V_Attempt

Spec == Init /\ [][Next]_vars

\* install and uninstall against a repository that does not change
NextInstall ==
    \/ UserInstall
    \/ UserUninstall
    \/ InstallStep
    \/ UninstallStep
    \/ R_Try
    \/ TransferStep
    \/ V_Split
    \/ V_Attempt

SpecInstall == Init /\ [][NextInstall]_vars

\* the documents a repository may hold for this client's own package
DocSelf(vstr, ver, inc, kinds, main) ==
    Document(YamlData(SelfId, vstr, inc, <<>>, <<>>, main, NoAlias,
                      [p \in Paths |-> IF p \in Listed(inc) THEN Declared(kinds[p], ver)
                                       ELSE NoChecksum], {}))

DocsSelf(ver) ==
    {DocSelf(vstr, ver, inc, kinds, main) :
       vstr \in {ver, Padded(ver)},
       inc \in {<<>>, <<XTxt>>, <<XTxt, SrcM>>},
       kinds \in {[p \in Paths |-> "good"], [p \in Paths |-> IF p = XTxt THEN "bad" ELSE "good"]},
       main \in {NoPath, XTxt}}

\* a package directory as a completed install of one file at version 1 leaves it
Installed1(vstr) == [EmptyDir EXCEPT !.files[XTxt] = 1, !.version = vstr, !.user = TRUE]

\* the directory of the original client once a launcher directory was made in it
WithBin == MakeDirs(NoDir, BinDir)

\* this client's own package is installed at version 1, written "1" or "1 " in
\* the manifest it was installed from; a.b is installed with
\* its launcher, or is not; the repository holds any version of both
InitUpdate ==
    /\ \E a \in BOOLEAN, bin \in BOOLEAN, vstr \in {1, Padded(1)} :
         /\ store = [p \in Pkgs |->
                       CASE p = SelfId    -> Installed1(vstr)
                         [] p = PkgA      -> IF a THEN Installed1(1) ELSE NoDir
                         [] p = Protected -> IF a \/ bin THEN WithBin ELSE NoDir
                         [] OTHER         -> NoDir]
         /\ launchers = IF a THEN [NoLaunchers EXCEPT ![BeforeDot(XTxt)] =
                                      [pkg |-> PkgA, main |-> XTxt]]
                        ELSE NoLaunchers
    /\ backup = [p \in Pkgs |-> NoDir]
    /\ \E ver \in 1..MaxVersion : \E docS \in DocsSelf(ver) :
         /\ repo = [docs |-> [p \in Pkgs |->
                       CASE p = SelfId -> [NoDocs EXCEPT !["package.yaml"] = docS]
                         [] p = PkgA   -> [NoDocs EXCEPT !["package.yaml"] =
                                             DocA(ver, <<XTxt>>, [q \in Paths |-> "none"],
                                                  XTxt, <<>>, <<>>)]
                         [] OTHER      -> NoDocs],
                    version |-> ver]
    /\ v = VIdle
    /\ t = TIdle
    /\ r = RIdle
    /\ stack = <<>>
    /\ ret = NoRet
    /\ faults = 0
    /\ halted = FALSE
    /\ jsonc = JIdle

\* the documents of a.b that differ in the main file and the alias they declare
DocsAlias ==
    {Document(YamlData(PkgA, 1, <<XTxt>>, <<>>, <<>>, main, alias, NoChecksums, {})) :
       main \in MainFiles, alias \in {NoAlias, Tool}}

\* a.b is installed at version 1, or is not, and the repository's manifest of
\* a.b declares any main file, with or without an alias
InitAlias ==
    /\ \E pre \in BOOLEAN :
         store = [p \in Pkgs |-> IF p = PkgA /\ pre THEN Installed1(1) ELSE NoDir]
    /\ backup = [p \in Pkgs |-> NoDir]
    /\ launchers = NoLaunchers
    /\ \E docA \in DocsAlias \cup DocsA(1) : repo = RepoAt(1, docA)
    /\ v = VIdle
    /\ t = TIdle
    /\ r = RIdle
    /\ stack = <<>>
    /\ ret = NoRet
    /\ faults = 0
    /\ halted = FALSE
    /\ jsonc = JIdle

NextAlias ==
    \/ UserInstall
    \/ UserUpdate
    \/ UserUninstall
    \/ InstallStep
    \/ UpdateStep
    \/ UninstallStep
    \/ R_Try
    \/ TransferStep
    \/ V_Split
    \/ V_Attempt

SpecAlias == InitAlias /\ [][NextAlias]_vars

\* a package document with one file and the given dependencies
DocDep(pkg, pip, paxd, main, kind) ==
    Document(YamlData(pkg, 1, <<XTxt>>, pip, paxd, main, NoAlias,
                      [p \in Paths |-> IF p = XTxt THEN Declared(kind, 1) ELSE NoChecksum],
                      {}))

\* the dependency lists of a.b and of c.d; c.d may depend on a.b in turn
DepsOfA == {<<>>, <<PkgD>>, <<PkgD, SelfId>>, <<SelfId, PkgD>>}

DepsOfD == {<<>>, <<SelfId>>, <<PkgA>>}

\* neither a.b nor c.d is installed; the third package is, or is not; the
\* repository holds a.b, c.d and the third package with any of the dependency
\* lists above
InitDeps ==
    /\ \E pre \in BOOLEAN :
         store = [p \in Pkgs |-> IF p = SelfId /\ pre THEN Installed1(1) ELSE NoDir]
    /\ backup = [p \in Pkgs |-> NoDir]
    /\ launchers = NoLaunchers
    /\ \E da \in DepsOfA, dd \in DepsOfD, pip \in {<<>>, <<"requests">>} :
         repo = [docs |-> [p \in Pkgs |->
                    CASE p = PkgA   -> [NoDocs EXCEPT !["package.yaml"] =
                                          DocDep(PkgA, pip, da, XTxt, "good")]
                      [] p = PkgD   -> [NoDocs EXCEPT !["package.yaml"] =
                                          DocDep(PkgD, <<>>, dd, NoPath, "none")]
                      [] p = SelfId -> [NoDocs EXCEPT !["package.yaml"] =
                                          DocDep(SelfId, <<>>, <<>>, NoPath, "none")]
                      [] OTHER      -> NoDocs],
                 version |-> 1]
    /\ v = VIdle
    /\ t = TIdle
    /\ r = RIdle
    /\ stack = <<>>
    /\ ret = NoRet
    /\ faults = 0
    /\ halted = FALSE
    /\ jsonc = JIdle

NextDeps ==
    \/ UserInstall
    \/ InstallStep
    \/ R_Try
    \/ TransferStep
    \/ V_Split
    \/ V_Attempt

SpecDeps == InitDeps /\ [][NextDeps]_vars

\* the steps of the program itself: one synchronous thread, which goes on
\* whenever it has a step to take
ProgramStep == InstallStep \/ R_Try \/ TransferStep \/ V_Split \/ V_Attempt

FairSpecDeps == SpecDeps /\ WF_vars(ProgramStep)

NextUpdate ==
    \/ UserUpdate
    \/ UpdateStep
    \/ R_Try
    \/ TransferStep
    \/ V_Split
    \/ V_Attempt

SpecUpdate == InitUpdate /\ [][NextUpdate]_vars

\* a.b is installed at version 1 with files x.txt and src/m.py, with or
\* without its .USER_INSTALLED marker (an install whose last write failed
\* leaves none); the repository holds any document for a.b at any version
InitInPlace ==
    /\ \E user \in BOOLEAN :
         store = [p \in Pkgs |->
                    IF p = PkgA
                    THEN MakeDirs([Installed1(1) EXCEPT !.files[SrcM] = 1, !.user = user],
                                  Dirname(SrcM))
                    ELSE NoDir]
    /\ backup = [p \in Pkgs |-> NoDir]
    /\ launchers = NoLaunchers
    /\ \E ver \in 1..MaxVersion : \E docA \in DocsA(ver) : repo = RepoAt(ver, docA)
    /\ v = VIdle
    /\ t = TIdle
    /\ r = RIdle
    /\ stack = <<>>
    /\ ret = NoRet
    /\ faults = 0
    /\ halted = FALSE
    /\ jsonc = JIdle

SpecInPlace == InitInPlace /\ [][NextUpdate]_vars

\* ------------------------------------------------------------------ claims
\* the digest of content c under the algorithm e declares equals the hex e declares
DigestMatches(e, c) ==
    /\ c \in Contents
    /\ ColonPos(e) # 0
    /\ SplitAlgorithm(e) \in KnownAlgorithms
    /\ HexDigest(SplitAlgorithm(e), c) = SplitHash(e)

TransferRunning == t.pc \notin {"idle", "done"}

\* C5 (as stated): for a file with a declared checksum the transfer succeeds
\* if and only if the digest of the downloaded content equals the declared value.
C5_SuccessIffDigest ==
    (t.pc = "done" /\ t.expected # NoChecksum)
        => (t.result = "true" <=> DigestMatches(t.expected, t.got))

\* C5 (amended): with a declared, non-empty checksum and verification not
\* skipped, success implies that the digest of the downloaded content equals
\* the declared value, and when no network or disk exception is raised during
\* the transfer, equality of the digests implies success.
C5_SuccessIffDigestUnlessSkipped ==
    (t.pc = "done" /\ MustVerify(t.expected, t.skip))
        => /\ t.result = "true" => DigestMatches(t.expected, t.got)
           /\ (DigestMatches(t.expected, t.got) /\ faults = t.f0) => t.result = "true"

C5_Witness ==
    /\ t.pc = "done" /\ MustVerify(t.expected, t.skip)
    /\ t.got \in Contents /\ faults = t.f0
    /\ ~DigestMatches(t.expected, t.got)
    /\ SplitAlgorithm(t.expected) \in KnownAlgorithms
    /\ t.result = "false"

\* C6: whenever a transfer returns failure, the staging file does not exist and
\* the final path holds exactly what it held before the call.
C6_FailureLeavesFinalUntouched ==
    (t.pc = "done" /\ t.result = "false")
        => /\ store[t.pkg].tmp[t.path] = Absent
           /\ store[t.pkg].files[t.path] = t.prior

\* C7: a transfer interrupted at any point before its rename completes leaves
\* the prior file at the final path with its prior content, and only the
\* staging file as residue.
C7_InterruptLeavesPriorFile ==
    (halted /\ TransferRunning)
        => /\ store[t.pkg].files[t.path] = t.prior
           /\ [store[t.pkg] EXCEPT !.tmp[t.path] = Absent] = t.before

C9_VerifyNeverRaises == v.pc = "done" => v.result \in {"true", "false"}

\* a source is usable when its fetch met no network error, its text parses,
\* and (YAML) none of the required fields is absent
Usable(n) ==
    /\ n \notin r.neterr
    /\ repo.docs[r.pkg][n].state = "ok"
    /\ n \in YamlSources => repo.docs[r.pkg][n].data.missing = {}

\* the document of source n in canonical form, whatever format it was written in
Canonical(n) ==
    LET d == repo.docs[r.pkg][n].data
    IN IF n \in YamlSources
       THEN [missing |-> d.missing, pkg_name |-> d.name, pkg_version |-> d.version,
             include |-> d.files,
             depend |-> [i \in 1..(Len(d.pip) + Len(d.paxd)) |->
                            IF i <= Len(d.pip) THEN [kind |-> "pip", id |-> d.pip[i]]
                            ELSE [kind |-> "paxd", id |-> d.paxd[i - Len(d.pip)]]],
             mainfile |-> d.main_executable, alias |-> d.command_alias,
             checksum |-> d.checksum]
       ELSE d

Fixed == <<"package.yaml", "paxd.yaml", "paxd">>

Present(d, m) == {p \in Listed(m.include) : d.files[p] # Absent}

\* C1: after an install in which some include-file transfer failed returns, the
\* package's install directory does not exist and no file fetched earlier in
\* that install remains on disk.
C1_AbortedInstallLeavesNoDirectory ==
    (ret.op = "install" /\ ret.xfail)
        => /\ ~store[ret.pkg].exists
           /\ \A p \in Paths : store[ret.pkg].files[p] = Absent

\* C2: when an update that aborted after its backup was taken returns, the
\* package directory has exactly the contents it had before the update began
\* and the backup directory does not exist.
C2_AbortedUpdateRestores ==
    (ret.op = "update" /\ ret.backed /\ ret.outcome = "failed")
        => /\ store[ret.pkg] = ret.pre
           /\ ~backup[ret.pkg].exists

\* C3: whenever update returns, on every path and for every manifest, the
\* backup directory "<package dir>.backup" does not exist.
C3_NoBackupAfterUpdate == ret.op = "update" => ~backup[ret.pkg].exists

\* C4: after an install or update returns, the package directory does not
\* hold some but not all of the include files of the manifest that was used.
C4_AllOrNothing ==
    (ret.op \in {"install", "update"} /\ store[ret.pkg].exists)
        => Present(store[ret.pkg], ret.man) \in {{}, Listed(ret.man.include)}

\* C11: every manifest the resolver returns, from whichever source it was
\* resolved, has all five required fields; a source lacking one of them never
\* yields a returned manifest.
C11_ReturnedManifestComplete ==
    (r.pc = "done" /\ r.result = "ok") => r.man.missing = {}

\* the number of backslashes in a row that end just before position k
RunBefore(line, k) ==
    CHOOSE n \in 0..(k - 1) :
        /\ \A m \in (k - n)..(k - 1) : line[m] = Backslash
        /\ n = k - 1 \/ line[k - n - 1] # Backslash

\* the character at k follows an escaping backslash
EscapedAt(line, k) == RunBefore(line, k) % 2 = 1

\* position k lies after an opening quote and not after its closing quote
InsideString(line, k) ==
    Cardinality({q \in 1..(k - 1) : line[q] = Quote /\ ~EscapedAt(line, q)}) % 2 = 1

CommentStarts(line) ==
    {k \in 1..(Len(line) - 1) :
        /\ line[k] = Slash /\ line[k + 1] = Slash
        /\ ~EscapedAt(line, k)
        /\ ~InsideString(line, k)}

FirstComment(line) ==
    CHOOSE k \in CommentStarts(line) : \A m \in CommentStarts(line) : k <= m

Trimmed(s) ==
    LET n == CHOOSE n \in 0..Len(s) :
                 /\ n = 0 \/ s[n] # " "
                 /\ \A m \in (n + 1)..Len(s) : s[m] = " "
    IN SubSeq(s, 1, n)

Kept(line) ==
    IF CommentStarts(line) = {} THEN line
    ELSE Trimmed(SubSeq(line, 1, FirstComment(line) - 1))

\* C12: the text kept of every input line is the line up to, and without, the
\* first "//" outside a double-quoted string (a backslash escapes the character
\* after it, and an escaped quote neither opens nor closes a string), with
\* trailing whitespace trimmed; a line with no "//" outside a string is kept
\* as it is.
C12_CommentStripping ==
    \A i \in 1..Len(jsonc.cleaned) : jsonc.cleaned[i] = Kept(jsonc.lines[i])

C12_Witness ==
    /\ jsonc.pc = "done"
    /\ \E i \in 1..Len(jsonc.lines) :
         LET line == jsonc.lines[i]
         IN /\ CommentStarts(line) # {}
            /\ \E k \in 1..(FirstComment(line) - 1) :
                 line[k] = Slash /\ line[k + 1] = Slash /\ InsideString(line, k)
            /\ jsonc.cleaned[i] = SubSeq(line, 1, FirstComment(line) - 1)

\* C13: after an install returns, the package directory holds .USER_INSTALLED
\* if and only if the package was installed by a direct user request; one
\* installed as a dependency of another package has no marker.
C13_UserMarkerIffDirect ==
    (ret.op = "install" /\ ret.outcome = "ok") => (store[ret.pkg].user <=> ret.direct)

\* C14: whenever install completes successfully, the package directory exists,
\* every file of the manifest's include list is present in it, .VERSION holds
\* the manifest's version, and .USER_INSTALLED is present.
C14_SuccessfulInstallComplete ==
    (ret.op = "install" /\ ret.outcome = "ok")
        => /\ store[ret.pkg].exists
           /\ \A p \in Listed(ret.man.include) : store[ret.pkg].files[p] \in Contents
           /\ store[ret.pkg].version = ret.man.pkg_version
           /\ store[ret.pkg].user

C14_Witness ==
    /\ ret.op = "install" /\ ret.outcome = "ok" /\ ret.direct
    /\ Len(ret.man.include) = 2
    /\ ret.man.mainfile # NoPath
    /\ store[ret.pkg].files[SrcM] \in Contents

\* C15: install and uninstall of the protected identifier are refused outright
\* on every call: the call returns in its first step, in which no request is
\* sent, no prompt is issued, and the package store, the backups and the
\* launcher directory stay as they are.
C15_ProtectedRefused ==
    [][(stack # <<>> /\ Top.op \in {"install", "uninstall"} /\ Top.req = Protected)
          => /\ Top.pc = "begin"
             /\ ret'.outcome = "refused" /\ ret'.op = Top.op /\ ret'.req = Protected
             /\ Len(stack') = Len(stack) - 1
             /\ UNCHANGED <<store, backup, launchers, repo, v, t, r, faults>>]_vars

C15_Witness ==
    /\ ret.op = "uninstall" /\ ret.req = Protected /\ ret.outcome = "refused"
    /\ store[Protected].exists
    /\ store[PkgA].exists
    /\ stack = <<>>

\* C16: update called with the protected identifier runs as update called with
\* this client's own identifier (same force, same skip_checksum), and the
\* protected package's own directory is not modified by it.
C16_RedirectedUpdateEquivalent ==
    /\ [](\A k \in 1..Len(stack) :
            (stack[k].op = "update" /\ stack[k].req = Protected /\ stack[k].pc # "begin")
                => stack[k].pkg = SelfId)
    /\ [][(stack # <<>> /\ Top.op = "update" /\ Top.req = Protected)
             => store'[Protected] = store[Protected]]_vars

\* C17: no install or update writes a launcher for an alias that already has a
\* launcher entry unless replace or manual resolution was chosen for that
\* write; a launcher of another package is never silently overwritten.
C17_NoSilentLauncherOverwrite ==
    [][\A a \in Aliases :
          (launchers[a] # NoTarget /\ launchers'[a] # NoTarget /\ launchers'[a] # launchers[a])
              => /\ stack' # <<>>
                 /\ stack'[Len(stack')].choice \in {"1", "3"}]_vars

\* C18: every failure inside an install or update transaction triggers the
\* rollback (install: nothing of this install is left) or the restore from
\* backup (update: the directory is as before the update) before it ends.
C18_FailureRollsBack ==
    /\ (ret.op = "install" /\ ret.outcome = "raise") => store[ret.pkg] \in {NoDir, ret.pre}
    /\ (ret.op = "update" /\ ret.outcome = "failed") => store[ret.pkg] = ret.pre

CompleteInstall(d, m) ==
    /\ d.exists /\ d.user /\ d.version = m.pkg_version
    /\ \A p \in Paths : d.files[p] # Absent <=> p \in Listed(m.include)

\* C20: installing an installed package again, manifest and file contents
\* unchanged and the reinstall confirmed, ends with the package installed with
\* the same files, markers and launcher entry as after the first install, with
\* or without a mainfile.
C20_ReinstallIdempotent ==
    (/\ ret.op = "install" /\ ret.direct /\ faults = 0
     /\ CompleteInstall(ret.pre, ret.man)
     /\ ret.outcome # "declined")
        => /\ store[ret.pkg] = ret.pre
           /\ ret.man.mainfile # NoPath
                => launchers[AliasOf(ret.man)] = [pkg |-> ret.pkg, main |-> ret.man.mainfile]

\* C21: after a confirmed uninstall has removed the package directory, no
\* launcher entry of that package exists, whether or not the repository
\* configuration or the package's manifest could be fetched during the uninstall.
C21_UninstallRemovesLauncher ==
    (ret.op = "uninstall" /\ ret.outcome = "ok" /\ ~store[ret.pkg].exists)
        => \A a \in Aliases : launchers[a].pkg # ret.pkg

\* os.path.basename: everything after the last separator
Basename(p) == SubSeq(p, LastSlash(p) + 1, Len(p))

LastDot(p) ==
    IF \E i \in 1..Len(p) : p[i] = "."
    THEN CHOOSE i \in 1..Len(p) : p[i] = "." /\ \A j \in (i+1)..Len(p) : p[j] # "."
    ELSE 0

\* a base name without its extension (the last dot and what follows it)
Stem(p) ==
    LET b == Basename(p)
    IN IF LastDot(b) <= 1 THEN b ELSE SubSeq(b, 1, LastDot(b) - 1)

\* the manifest declares a main file and no alias
DefaultAliased(m) == m.mainfile # NoPath /\ m.alias = NoAlias

\* C22: when a manifest declares mainfile but no alias, the launcher alias that
\* install, update and uninstall use is mainfile's base name with its directory
\* path and its extension stripped, and a successful install leaves the launcher
\* under that name.
C22_DefaultAliasIsStem ==
    /\ \A k \in 1..Len(stack) :
          (stack[k].pc = "bat" /\ DefaultAliased(stack[k].man))
              => AliasOf(stack[k].man) = Stem(stack[k].man.mainfile)
    /\ (stack # <<>> /\ Top.pc = "unlink" /\ r.pc = "done" /\ r.result = "ok"
          /\ DefaultAliased(r.man))
              => AliasOf(r.man) = Stem(r.man.mainfile)
    /\ (ret.op = "install" /\ ret.outcome = "ok" /\ DefaultAliased(ret.man))
              => /\ Stem(ret.man.mainfile) \in Aliases
                 /\ launchers[Stem(ret.man.mainfile)].pkg = ret.pkg

\* a directory as a completed install leaves it: both markers are written
HasMarkers(d) == d.version # Absent /\ d.user

\* C23: between operations, a directory exists under the package store root
\* only if it is a package installed by a completed install and not uninstalled
\* since, and no operation creates a store directory for a package other than
\* the one it is installing.
C23_DirectoryIffInstalled ==
    /\ [](stack = <<>> => \A p \in Pkgs : store[p].exists => HasMarkers(store[p]))
    /\ [][\A p \in Pkgs :
              (~store[p].exists /\ store'[p].exists)
                  => stack # <<>> /\ Top.op = "install" /\ Top.pkg = p]_vars

\* C24: in install the probe of the repository is the first effect: up to and
\* including the probe no manifest is fetched, no file is downloaded, no
\* dependency is installed, nothing in the package store, the backups or the
\* launcher directory changes, and the reinstall prompt is reached only from a
\* probe that succeeded; a probe that fails ends the install with an exception.
C24_ProbeFirst ==
    [][(stack # <<>> /\ Top.op = "install" /\ Top.pc \in {"begin", "probe"})
          => /\ UNCHANGED <<store, backup, launchers, r, t>>
             /\ Len(stack') <= Len(stack)
             /\ Len(stack') = Len(stack)
                  => \/ Top.pc = "begin" /\ stack'[Len(stack')].pc = "probe"
                     \/ Top.pc = "probe" /\ stack'[Len(stack')].pc = "exists"
                                         /\ faults' = faults
             /\ (Top.pc = "probe" /\ faults' > faults)
                  => /\ Len(stack') < Len(stack)
                     /\ ret'.op = "install" /\ ret'.outcome = "raise"]_vars

\* an install over an existing installation failed at the probe
C24_Witness ==
    /\ ret.op = "install" /\ ret.outcome = "raise" /\ stack = <<>>
    /\ ret.man = NoManifest
    /\ ret.pre.exists /\ HasMarkers(ret.pre)
    /\ store[ret.pkg] = ret.pre

\* C25: when install finds the package directory in place, the directory is
\* removed only in the step that asks for confirmation and only on a yes; on a
\* no, install returns with the package directory, its markers, the backups
\* and the launcher directory unchanged, and neither the manifest nor any file
\* has been fetched.
C25_ReinstallNeedsConfirmation ==
    /\ []((ret.op = "install" /\ ret.outcome = "declined")
            => /\ store[ret.pkg] = ret.pre /\ ret.pre.exists
               /\ ret.man = NoManifest)
    /\ [][(stack # <<>> /\ Top.op = "install" /\ Top.pc = "exists"
             /\ store[Top.pkg].exists)
            => \/ /\ Len(stack') < Len(stack)
                  /\ ret'.outcome = "declined"
                  /\ UNCHANGED <<store, backup, launchers, r, t>>
               \/ /\ Len(stack') = Len(stack)
                  /\ stack'[Len(stack')].pc = "resolve"
                  /\ store' = [store EXCEPT ![Top.pkg] = NoDir]
                  /\ UNCHANGED <<backup, launchers, r, t>>]_vars

\* a reinstall of a package with files, markers and a launcher was declined
C25_Witness ==
    /\ ret.op = "install" /\ ret.outcome = "declined" /\ stack = <<>>
    /\ HasMarkers(store[ret.pkg])
    /\ store[ret.pkg].files[XTxt] \in Contents
    /\ \E a \in Aliases : launchers[a].pkg = ret.pkg

\* the frame is in, or past, the transfer of its include files
PastDeps(fr) ==
    fr.pc \in {"mkdir", "xfer", "xfering", "rollback", "launcher", "bat", "version", "user"}

\* the dependency a frame is waiting at
CurrentDep(fr) == fr.man.depend[fr.d]

\* C26: dependencies are processed one at a time in the order of the
\* manifest's list, depth-first: a nested install runs exactly the dependency
\* its caller is waiting at, the caller's position moves on by one and only
\* in the caller itself, an internal dependency that is installed is skipped
\* in one step with no request and no change, an install is started only for
\* a dependency that is not installed, and no include file of a package is
\* transferred before all of its dependencies have been processed.
C26_DependenciesInOrder ==
    /\ [](\A k \in 1..(Len(stack) - 1) :
            /\ stack[k].op = "install" /\ stack[k].pc = "deps"
            /\ stack[k].d <= Len(stack[k].man.depend)
            /\ CurrentDep(stack[k]) = [kind |-> "paxd", id |-> stack[k + 1].req])
    /\ [](\A k \in 1..Len(stack) :
            (stack[k].op = "install" /\ PastDeps(stack[k]))
                => stack[k].d = Len(stack[k].man.depend) + 1)
    /\ []((t.pc # "idle" /\ t.caller = "txn")
            => stack # <<>> /\ Top.d = Len(Top.man.depend) + 1)
    /\ [][\A k \in 1..Len(stack) :
              (k <= Len(stack') /\ stack'[k].d # stack[k].d)
                  => /\ stack'[k].d = stack[k].d + 1
                     /\ k = Len(stack')
                     /\ stack[k].pc = "deps"]_vars
    /\ [][(/\ stack # <<>> /\ Top.op = "install" /\ Top.pc = "deps"
           /\ Top.d <= Len(Top.man.depend)
           /\ CurrentDep(Top).kind = "paxd"
           /\ store[CurrentDep(Top).id].exists)
              => /\ UNCHANGED <<store, launchers, r, t, faults>>
                 /\ stack' = With([Top EXCEPT !.d = @ + 1])]_vars
    /\ [][(stack # <<>> /\ Len(stack') > Len(stack))
              => /\ Len(stack') = Len(stack) + 1
                 /\ ~store[stack'[Len(stack')].pkg].exists]_vars

\* a.b lists c.d and then the third package, which c.d depends on as well:
\* c.d and its dependency are installed, the third package has been skipped
\* as a dependency of a.b, and no file of a.b has been transferred yet
C26_Witness ==
    /\ Len(stack) = 1 /\ Top.op = "install" /\ Top.pkg = PkgA /\ Top.pc = "deps"
    /\ Top.man.depend = DepRefs("paxd", <<PkgD, SelfId>>)
    /\ Top.d = 3
    /\ repo.docs[PkgD]["package.yaml"].data.paxd = <<SelfId>>
    /\ HasMarkers(store[PkgD]) /\ HasMarkers(store[SelfId])
    /\ ~store[PkgA].exists
    /\ ret.op = "install" /\ ret.pkg = PkgD /\ ret.outcome = "ok"

\* package p lists package q as an internal dependency
DependsOn(p, q) ==
    LET deps == repo.docs[p]["package.yaml"].data.paxd
    IN \E i \in 1..Len(deps) : deps[i] = q

\* a.b depends on c.d and c.d depends on a.b
Cyclic == DependsOn(PkgA, PkgD) /\ DependsOn(PkgD, PkgA)

\* C27 (as stated): an install terminates when the internal-dependency graph
\* reachable from the package is acyclic; when a.b depends on c.d, c.d depends
\* on a.b and neither is installed, the install of a.b never returns.
C27_CycleNeverTerminates ==
    /\ (~Cyclic /\ stack # <<>>) ~> (stack = <<>>)
    /\ [](Cyclic => ~(/\ ret.op = "install" /\ ret.req = PkgA /\ stack = <<>>
                      /\ faults = 0))

\* C27 (amended): every install terminates; when a.b depends on c.d, c.d
\* depends on a.b and neither is installed, neither directory is ever created
\* (so the already-installed test never stops the recursion), a call of the
\* cycle waiting for a dependency returns only when the nesting has reached the
\* interpreter's limit or a call nested in it has failed, and the install of
\* a.b ends with an exception.
C27_CycleEndsAtRecursionLimit ==
    /\ (stack # <<>>) ~> (stack = <<>>)
    /\ [](Cyclic => ~store[PkgA].exists /\ ~store[PkgD].exists)
    /\ []((Cyclic /\ ret.op = "install" /\ ret.req = PkgA /\ stack = <<>>)
            => ret.outcome = "raise")
    /\ [][(/\ Cyclic /\ stack # <<>> /\ Top.pkg \in {PkgA, PkgD}
           /\ Top.pc = "deps" /\ Len(stack') < Len(stack))
              => Len(stack) = MaxDepth]_vars

\* the install of a.b in a cycle has returned, with no failure of the
\* environment and nothing installed
C27_Witness ==
    /\ Cyclic /\ stack = <<>> /\ faults = 0
    /\ ret.op = "install" /\ ret.req = PkgA /\ ret.outcome = "raise"
    /\ ~store[PkgA].exists /\ ~store[PkgD].exists

\* C28: when install meets a launcher conflict and the answer is "cancel", the
\* package directory is deleted entirely, so that it holds neither .VERSION nor
\* .USER_INSTALLED, and the launcher that was there stays as it was.
C28_CancelRemovesPackage ==
    /\ []((ret.op = "install" /\ ret.outcome = "cancelled") => store[ret.pkg] = NoDir)
    /\ [][(ret'.op = "install" /\ ret'.outcome = "cancelled" /\ ret' # ret)
              => /\ stack # <<>> /\ Top.op = "install" /\ Top.pc = "bat"
                 /\ LauncherExists(AliasOf(Top.man))
                 /\ launchers' = launchers
                 /\ store' = [store EXCEPT ![Top.pkg] = NoDir]]_vars

\* an install whose files were transferred was cancelled at the conflict
C28_Witness ==
    /\ ret.op = "install" /\ ret.outcome = "cancelled" /\ stack = <<>>
    /\ ret.man.include # <<>>
    /\ launchers[AliasOf(ret.man)] # NoTarget
    /\ ~store[ret.pkg].exists

\* C29: whenever an update that was not cut short as up to date returns
\* without a failure, for every manifest, one with an empty include list
\* included, .VERSION holds the version of the latest manifest and, if the
\* manifest declares a main file, the launcher of its alias points at that
\* main file of the package.
C29_UpdateWritesVersionAndLauncher ==
    (ret.op = "update" /\ ret.outcome = "ok")
        => /\ store[ret.pkg].version = VersionOf(ret.man)
           /\ ret.man.mainfile # NoPath
                => launchers[AliasOf(ret.man)] = [pkg |-> ret.pkg, main |-> ret.man.mainfile]

\* the include files present in the directory of the package
Remaining(d) == {p \in Paths : d.files[p] # Absent}

\* C30: a failure inside the rollback of an install or the restore of an update
\* is swallowed: the failure reported is the transfer failure that started it,
\* and the remaining steps still run (install: every installed file but one
\* that could not be removed is gone; update: the package directory is back
\* as it was and the backup is gone).
C30_RollbackFailureSwallowed ==
    /\ (ret.op \in {"install", "update"} /\ ret.xfail) => ret.cause = "transfer"
    /\ (ret.op = "install" /\ ret.xfail)
          => Cardinality(Remaining(store[ret.pkg])) <= faults
    /\ (ret.op = "update" /\ ret.xfail)
          => store[ret.pkg] = ret.pre /\ ~backup[ret.pkg].exists

\* the call on top is an install over an existing installation whose directory
\* was removed after the confirmation, and it is resolving the manifest, or a
\* dependency install has failed, or a file transfer has failed
ReinstallConfirmed ==
    /\ stack # <<>> /\ Top.op = "install" /\ Top.pre.exists
    /\ Top.pc \in {"resolving", "raise", "rollback"}

\* C31: a confirmed reinstall that fails after the existing directory was
\* removed (the manifest cannot be resolved, a dependency install fails, or a
\* file transfer fails) leaves the package uninstalled: no package directory,
\* nothing of the previous installation restored.
C31_FailedReinstallLeavesUninstalled ==
    [][(ReinstallConfirmed /\ Len(stack') < Len(stack) /\ ret'.outcome = "raise")
          => ~store'[Top.pkg].exists]_vars

\* the install on top has written its launcher and has the markers left to write
LauncherWritten ==
    /\ stack # <<>> /\ Top.op = "install" /\ Top.pc \in {"version", "user"}
    /\ Top.man.mainfile # NoPath
    /\ launchers[AliasOf(Top.man)] = [pkg |-> Top.pkg, main |-> Top.man.mainfile]

\* C32: when an install returns, the launcher it created or rewrote points
\* into a package directory that exists and holds its .VERSION marker; an
\* install that does not end with the package installed leaves no launcher
\* behind for it.
C32_LauncherOnlyForInstalledPackage ==
    [][(LauncherWritten /\ Len(stack') < Len(stack))
          => \/ store'[Top.pkg].exists /\ store'[Top.pkg].version # Absent
             \/ launchers'[AliasOf(Top.man)] # [pkg |-> Top.pkg, main |-> Top.man.mainfile]]_vars

\* every internal dependency of manifest m has a directory in store st
DependenciesInstalled(m, st) ==
    \A k \in 1..Len(m.depend) :
        m.depend[k].kind = "paxd" => st[m.depend[k].id].exists

\* C33: whenever an install completes successfully, every internal dependency
\* declared in its manifest is installed (its directory exists); a nested
\* dependency install that ends without installing (refused protected
\* identifier, cancelled launcher conflict) keeps the install from
\* completing successfully.
C33_SuccessImpliesDependenciesInstalled ==
    [][(stack # <<>> /\ Top.op = "install" /\ Len(stack') < Len(stack)
          /\ ret'.outcome = "ok")
          => DependenciesInstalled(Top.man, store')]_vars

\* the install on top is in its file phase or is passing on a failure
FilePhase ==
    /\ stack # <<>> /\ Top.op = "install"
    /\ Top.pc \in {"mkdir", "xfer", "xfering", "rollback", "raise"}

\* C34: the rollback of an aborted install covers only the failing package's
\* own files: from the start of the file phase to the return of the failure,
\* no step changes the directory of any other package or any launcher, so the
\* internal dependencies installed earlier in the same call keep their files,
\* markers and launchers after the parent install has failed.
C34_RollbackKeepsDependencies ==
    [][FilePhase => /\ launchers' = launchers
                    /\ \A q \in Pkgs \ {Top.pkg} : store'[q] = store[q]]_vars

\* a.b's install has failed in a transfer after its dependency c.d was
\* installed by the same call, and c.d is still installed with its markers
C34_Witness ==
    /\ ret.op = "install" /\ ret.pkg = PkgA /\ ret.outcome = "raise"
    /\ ret.cause = "transfer" /\ ~ret.pre.exists
    /\ \E k \in 1..Len(ret.man.depend) : ret.man.depend[k].id = PkgD
    /\ store[PkgD].exists /\ store[PkgD].files[XTxt] # Absent
    /\ store[PkgD].version # Absent /\ store[PkgD].user

\* the update on top returns successfully in this step
UpdateSucceeds ==
    /\ stack # <<>> /\ Top.op = "update"
    /\ Len(stack') < Len(stack) /\ ret'.outcome = "ok"

\* C35: a successful update mutates the package directory in place and
\* changes only the files named in the new manifest's include list and
\* .VERSION: .USER_INSTALLED keeps its prior presence or absence, every file
\* the new manifest does not list is on disk as before, no staged file is
\* left, and no step of an update starts an install or changes the directory
\* of another package (but for the launcher directory of the original client).
C35_UpdateInPlace ==
    [][(stack # <<>> /\ Top.op = "update")
          => /\ Len(stack') <= Len(stack)
             /\ \A q \in Pkgs \ {Top.pkg} :
                   \/ store'[q] = store[q]
                   \/ q = Protected /\ store'[q] = MakeDirs(store[q], BinDir)
             /\ UpdateSucceeds
                   => /\ store'[Top.pkg].exists
                      /\ store'[Top.pkg].user = Top.pre.user
                      /\ store'[Top.pkg].tmp = Top.pre.tmp
                      /\ \A p \in Paths \ Listed(Top.man.include) :
                            store'[Top.pkg].files[p] = Top.pre.files[p]]_vars

\* an update of a.b, installed without .USER_INSTALLED, has succeeded with a
\* manifest of another version that no longer lists one of the installed
\* files and declares an internal dependency: that file is still there, the
\* marker is still absent and the dependency is not installed
C35_Witness ==
    /\ ret.op = "update" /\ ret.pkg = PkgA /\ ret.outcome = "ok"
    /\ ~ret.pre.user /\ ~store[PkgA].user
    /\ store[PkgA].version = VersionOf(ret.man)
    /\ store[PkgA].version # ret.pre.version
    /\ \E p \in Paths \ Listed(ret.man.include) : store[PkgA].files[p] # Absent
    /\ \E k \in 1..Len(ret.man.depend) :
         ret.man.depend[k].kind = "paxd" /\ ~store[ret.man.depend[k].id].exists

\* no read of the staged file has failed
Readable == faults = 0

\* C36: checksum retries hash the same staged file again and never fetch it
\* again: no attempt changes a file or starts a transfer, and while the
\* staged file is readable and unchanged every attempt has the verdict of the
\* first one, so the result is the first attempt's verdict; a first-attempt
\* mismatch means all 4 attempts mismatch and the result is false.
C36_VerdictOfFirstAttempt ==
    /\ []((Readable /\ v.matched # <<>>)
            => /\ \A i \in 1..Len(v.matched) : v.matched[i] = v.matched[1]
               /\ v.pc = "done"
                     => /\ v.result = (IF v.matched[1] THEN "true" ELSE "false")
                        /\ ~v.matched[1] => v.tries = MaxRetries)
    /\ [][v.pc = "attempt" => (store' = store /\ t' = t)]_vars

\* a readable staged file whose digest is not the expected one was hashed 4
\* times and the result is false
C36_Witness ==
    /\ v.pc = "done" /\ v.result = "false" /\ Readable
    /\ v.tries = MaxRetries /\ v.matched = <<FALSE, FALSE, FALSE, FALSE>>
    /\ v.alg \in KnownAlgorithms /\ store[v.pkg].tmp[v.path] \in Contents
    /\ HexDigest(v.alg, store[v.pkg].tmp[v.path]) # v.hex

====
